---------------------------- MODULE Spec2Model ----------------------------
(***************************************************************************)
(* A model of CaptureFile (src/CaptureFile/CaptureFile.py): the capture    *)
(* file on disk (configuration page, two master-node slots, data region),  *)
(* the operating system's byte-range locks, the process-wide registry of   *)
(* files opened for write, and the CaptureFile handles with their master   *)
(* node, compression block, caches and buffered writes.                    *)
(*                                                                         *)
(* Storage is counted in cells.  A cell stands for the unit the code packs *)
(* with struct: a 4-byte size or counter, one byte of a record, or one     *)
(* 12-byte DataCoordinates.  The geometry (page size, compression block    *)
(* size, fan out) is the one the file's configuration page states; the     *)
(* model uses a small geometry so that pages, blocks and tree levels fill  *)
(* up within a few records.                                                *)
(***************************************************************************)
EXTENDS Integers, Sequences, FiniteSets, TLC

VARIABLES
    disk,      \* the capture file as the operating system holds it
    oslocks,   \* byte-range locks the operating system holds on the file
    registry,  \* CaptureFile._filenames_opened_for_write, one set per process
    hs,        \* the CaptureFile objects
    history,   \* history: what each slot's master stands for, the commits made
    view,      \* history: the records and metadata each handle's state stands for
    ret        \* the outcome of the last operation: handle, operation, value

vars == <<disk, oslocks, registry, hs, history, view, ret>>

-----------------------------------------------------------------------------
(* Bounds of the model. *)

\* Cells per page (page_size of the configuration page).
PageSize == 2

\* Pages per compression block (compression_block_size / page_size).
PagesPerBlock == 2

\* Children per tree node (fan_out of the configuration page).
FanOut == 2

\* Pages a new file is extended to (100 in the source, scaled to the geometry).
InitialPages == 12

\* Cells the file grows by at most at once (5 MiB in the source, scaled).
GrowthCap == 24

\* Most records a handle's tree holds.
MaxRecords == 5

\* Most commits made to one file.
MaxCommits == 3

MaxTyped == 3

MaxCrashes == 1

\* Records per file and commits per run where several handles or the metadata
\* are followed.
MaxFew == 2

\* Most cells of data a handle appends beyond the file's first file limit.
MaxData == 6

\* Longest initial metadata a file is created with, in bytes.
MaxMetadata == 12

\* Bits of a serial number (32 in the source: "& 0xFFFFFFFF"), scaled so that
\* the wrap to 0 is within reach.
SerialBits == 3

-----------------------------------------------------------------------------
(* Program constants. *)

\* lru_cache(maxsize=10) of the block cache and of the full node cache.
CacheSize == 10

\* CaptureFileConfiguration.current_version.
CurrentVersion == 2

\* The seconds refresh sleeps before its last attempt.
RetrySleep == 4


-----------------------------------------------------------------------------
(* Geometry: CaptureFileConfiguration.__post_init__. *)

SerialModulus == 2 ^ SerialBits

compression_block_size == PagesPerBlock * PageSize

master_node_size == PageSize * 2 + compression_block_size

\* The two starting positions of the two master nodes.
master_node_positions == <<PageSize, PageSize + master_node_size>>

\* CaptureFileConfiguration.struct.size: the magic and four longs.
MagicSize == 11
HeaderSize == MagicSize + 16

initial_file_limit == master_node_positions[2] + master_node_size

Min(a, b) == IF a < b THEN a ELSE b

Max(a, b) == IF a < b THEN b ELSE a

\* ceil(a / b) for b > 0.
CeilDiv(a, b) == (a + b - 1) \div b

\* s[from+1 .. to] with Python's slicing: clipped to the sequence.
Slice(s, from, to) ==
    LET lo == Min(Max(from, 0), Len(s))
        hi == Min(Max(to, lo), Len(s))
    IN  [i \in 1..(hi - lo) |-> s[lo + i]]

-----------------------------------------------------------------------------
(* Cells. *)

\* A 4-byte big-endian number, or one byte of data.
W(v) == <<"w", v, 0>>

\* A DataCoordinates packed with struct ">QL".
C(c) == <<"c", c[1], c[2]>>

\* A zero byte: bytearray(n), b"\x00" * n, a hole of the file.
Zero == W(0)

Zeros(n) == [i \in 1..n |-> Zero]

IsW(cell) == cell[1] = "w"

IsC(cell) == cell[1] = "c"

IsZ(cell) == cell[1] = "z"

\* DataCoordinates.null()
NullCoordinates == <<0, 0>>

\* DataCoordinates.is_null
is_null(c) == c[1] = 0 /\ c[2] = 0

\* DataCoordinates.from_bytes: any bytes unpack to some coordinates; bytes that
\* were not written as coordinates unpack to coordinates no block was written
\* at.
GarbageCoordinates == <<1, 0>>

from_bytes(cell) == IF IsC(cell) THEN <<cell[2], cell[3]>> ELSE GarbageCoordinates

-----------------------------------------------------------------------------
(* zlib.compress and zlib.decompress.  The compressed form of a block packs *)
(* two cells into one, so its length depends on the block; decompress       *)
(* fails on anything compress did not produce.                              *)

Pad == <<"p", 0, 0>>

compress(block) ==
    [i \in 1..CeilDiv(Len(block), 2) |->
        <<"z", block[2 * i - 1], IF 2 * i <= Len(block) THEN block[2 * i] ELSE Pad>>]

\* Whether zlib.decompress accepts the cells.
decompressible(cells) ==
    /\ Len(cells) > 0
    /\ \A i \in 1..Len(cells) :
        /\ IsZ(cells[i])
        /\ (cells[i][3] = Pad) => (i = Len(cells))

RECURSIVE decompress(_)
decompress(cells) ==
    IF cells = <<>> THEN <<>>
    ELSE LET c == cells[Len(cells)]
             front == decompress(SubSeq(cells, 1, Len(cells) - 1))
         IN  IF c[3] = Pad THEN Append(front, c[2]) ELSE front \o <<c[2], c[3]>>

-----------------------------------------------------------------------------
(* Records as the caller passes and receives them: a str (its code points)  *)
(* or bytes (its byte values).  str.encode() and str(bytes, "utf_8") are    *)
(* UTF-8 for code points below 2048.                                        *)

Bytes(v) == [t |-> "bytes", v |-> v]

Str(v) == [t |-> "str", v |-> v]

\* An exception raised instead of a value.
Raised(name) == [t |-> name, v |-> <<>>]

RECURSIVE utf8_encode(_)
utf8_encode(points) ==
    IF points = <<>> THEN <<>>
    ELSE LET p == Head(points)
         IN  (IF p < 128 THEN <<p>> ELSE <<192 + (p \div 64), 128 + (p % 64)>>)
                 \o utf8_encode(Tail(points))

\* The code points of the bytes, or <<-1>> where they are not UTF-8.
RECURSIVE utf8_decode(_)
utf8_decode(bytes) ==
    IF bytes = <<>> THEN <<>>
    ELSE LET b == Head(bytes)
         IN  IF b < 128
             THEN LET rest == utf8_decode(Tail(bytes))
                  IN  IF rest = <<-1>> THEN rest ELSE <<b>> \o rest
             ELSE IF b >= 194 /\ b < 224 /\ Len(bytes) >= 2
                       /\ bytes[2] >= 128 /\ bytes[2] < 192
             THEN LET rest == utf8_decode(Tail(Tail(bytes)))
                  IN  IF rest = <<-1>> THEN rest
                      ELSE <<(b - 192) * 64 + (bytes[2] - 128)>> \o rest
             ELSE <<-1>>

\* add_record: record if isinstance(record, bytes) else record.encode()
as_bytes_of(record) == IF record.t = "bytes" THEN record.v ELSE utf8_encode(record.v)

\* DataCoordinates.record: str(record, encoding) if encoding else bytes(record)
decoded(bytes, encoding) ==
    IF encoding = "none" THEN Bytes(bytes)
    ELSE IF utf8_decode(bytes) = <<-1>> THEN Raised("UnicodeDecodeError")
    ELSE Str(utf8_decode(bytes))

\* BytesStream.write_sized: the size, then the data.
write_sized(bytes) == <<W(Len(bytes))>> \o [i \in 1..Len(bytes) |-> W(bytes[i])]

\* The data cells of a sized block back as byte values.
ByteValues(cells) == [i \in 1..Len(cells) |-> cells[i][2]]

-----------------------------------------------------------------------------
(* RightmostPath and RightmostNode: a path is the sequence of its nodes,   *)
(* leaf level first; a node is the sequence of its children's coordinates. *)

\* RightmostPath.rightmost_node(height), as the path it leaves behind: a
\* RightmostNode is created for each missing level.
with_levels(path, height) ==
    IF height > Len(path)
    THEN path \o [i \in 1..(height - Len(path)) |-> <<>>]
    ELSE path

\* RightmostNode.add_child on the node of the given height.
add_child(path, height, coordinates) ==
    LET p == with_levels(path, height)
    IN  [p EXCEPT ![height] = Append(@, coordinates)]

\* A RightmostNode.is_full that takes a node for full when it has more than
\* fan_out children.
is_full_when_over(node) == Len(node) > FanOut

\* RightmostNode.is_full
is_full(node) == Len(node) = FanOut

RECURSIVE power_of_fan_out(_)
power_of_fan_out(h) == IF h = 0 THEN 1 ELSE FanOut * power_of_fan_out(h - 1)

\* A count of the records that takes every child of every level for one
\* record.
RECURSIVE children_count(_)
children_count(path) ==
    IF path = <<>> THEN 0
    ELSE children_count(SubSeq(path, 1, Len(path) - 1)) + Len(path[Len(path)])

\* RightmostPath.compute_record_count
RECURSIVE compute_record_count(_)
compute_record_count(path) ==
    IF path = <<>> THEN 0
    ELSE compute_record_count(SubSeq(path, 1, Len(path) - 1))
            + Len(path[Len(path)]) * power_of_fan_out(Len(path) - 1)

\* RightmostNode.write_with_height for every node, in height order: each
\* child preceded by the height of its node (RightmostPath.write_rightmost_nodes;
\* the leading count is the length of the sequence).
RECURSIVE write_rightmost_nodes(_)
write_rightmost_nodes(path) ==
    IF path = <<>> THEN <<>>
    ELSE write_rightmost_nodes(SubSeq(path, 1, Len(path) - 1))
            \o [i \in 1..Len(path[Len(path)]) |-> <<Len(path), path[Len(path)][i]>>]

\* RightmostPath.__post_init__ from a buffer: each (height, coordinates) read
\* is added to the node of its height.
RECURSIVE read_rightmost_nodes(_)
read_rightmost_nodes(entries) ==
    IF entries = <<>> THEN <<>>
    ELSE LET e == entries[Len(entries)]
         IN  add_child(read_rightmost_nodes(SubSeq(entries, 1, Len(entries) - 1)),
                       e[1], e[2])

\* RightmostNode.write_without_height: the children's coordinates alone.
write_without_height(node) == [i \in 1..Len(node) |-> C(node[i])]

\* leaf_to_root_path: the child indexes of a position, leaf level first.
RECURSIVE leaf_to_root_path(_, _)
leaf_to_root_path(position, height) ==
    IF height = 0 THEN <<>>
    ELSE <<position % FanOut>> \o leaf_to_root_path(position \div FanOut, height - 1)

-----------------------------------------------------------------------------
(* MasterNode and its image in a slot of the file. *)

MasterNode(serial, limit, pointer, path, page, block) ==
    [serial_number |-> serial, file_limit |-> limit, metadata_pointer |-> pointer,
     rightmost_path |-> path, contents_of_last_page |-> page,
     compression_block_contents |-> block]

\* MasterNode.increment_serial_number
increment_serial_number(m) ==
    [m EXCEPT !.serial_number = (@ + 1) % SerialModulus]

\* A position that puts odd serial numbers first:
\* master_node_positions[1 - serial_number % 2].
slot_of_odd_first(m) == 2 - (m.serial_number % 2)

\* MasterNode.position, as the index of the slot: serial_number % 2 chooses
\* master_node_positions[0] or [1].
slot_of(m) == (m.serial_number % 2) + 1

position(m) == master_node_positions[slot_of(m)]

\* MasterNode.as_bytes, in the units a write can be torn between: the packed
\* header, the metadata pointer, the rightmost nodes, the cells of the last
\* page, and compression_block_size cells of compression block and zero fill.
as_bytes(m) ==
    <<<<"hdr", m.serial_number, m.file_limit, Len(m.compression_block_contents)>>,
      <<"ptr", m.metadata_pointer>>,
      <<"path", write_rightmost_nodes(m.rightmost_path)>>>>
    \o m.contents_of_last_page
    \o m.compression_block_contents
    \o Zeros(compression_block_size - Len(m.compression_block_contents))

\* zlib.crc32 of a master node buffer.  The checksum is taken to be free of
\* collisions: it stands for the buffer it was computed from.
crc32(buffer) == <<"crc32", buffer>>

\* The bytes _write_master_node writes: the crc, then the buffer.
slot_image(m) == [crc |-> crc32(as_bytes(m)), buffer |-> as_bytes(m)]

\* MasterNode.new_from
new_from(buffer) ==
    LET compression_block_start == 3 + PageSize
        compression_block_len == buffer[1][4]
    IN  MasterNode(buffer[1][2], buffer[1][3], buffer[2][2],
                   read_rightmost_nodes(buffer[3][2]),
                   Slice(buffer, 3, compression_block_start),
                   Slice(buffer, compression_block_start,
                         compression_block_start + compression_block_len))

\* A faulty _decode_master_node that takes any recorded crc for the computed
\* one.
crc_unchecked(slot) == slot.crc[1] = "crc32"

\* _decode_master_node: whether the recorded crc is the computed one.
crc_ok(slot) == slot.crc = crc32(slot.buffer)

\* What is in a slot after the first k units of the image (the crc, then the
\* buffer's units) have reached it.
torn(old, new, k) ==
    [crc |-> IF k >= 1 THEN new.crc ELSE old.crc,
     buffer |-> [i \in 1..Len(old.buffer) |->
                    IF i <= k - 1 /\ i <= Len(new.buffer) THEN new.buffer[i]
                    ELSE old.buffer[i]]]

\* The number of units of a slot's image.
image_units == 4 + PageSize + compression_block_size

-----------------------------------------------------------------------------
(* The append path.  It works on a handle's master node (m), compression   *)
(* block (cb) and buffered file: pend is the sequence of <<offset, cell>>  *)
(* writes the buffered file has taken and not yet handed to the operating  *)
(* system, size the length the operating system has for the file.          *)

Appender(m, cb, pend, size) == [m |-> m, cb |-> cb, pend |-> pend, size |-> size]

\* The length of the file once the buffered writes are in it.
RECURSIVE extent(_, _)
extent(pend, size) ==
    IF pend = <<>> THEN size
    ELSE extent(Tail(pend), Max(size, Head(pend)[1] + 1))

\* _file_size: seek(0, SEEK_END) and tell()
file_size(x) == extent(x.pend, x.size)

\* file.write(cells) at an offset.
file_write(pend, offset, cells) ==
    pend \o [i \in 1..Len(cells) |-> <<offset + i - 1, cells[i]>>]

\* _write_full_pages
write_full_pages(x, raw_bytes) ==
    LET file_limit == x.m.file_limit
        page == x.m.contents_of_last_page
        pos_in_last_page == file_limit % PageSize
        total_len == pos_in_last_page + Len(raw_bytes)
        full_pages_len == (total_len \div PageSize) * PageSize
        full_page_remainder_len == full_pages_len - pos_in_last_page
        raw_bytes_remainder_len == Len(raw_bytes) - full_page_remainder_len
    IN  IF full_pages_len > 0
        THEN [x EXCEPT
                !.pend = file_write(@, (file_limit \div PageSize) * PageSize,
                             Slice(page, 0, pos_in_last_page)
                                 \o Slice(raw_bytes, 0, full_page_remainder_len)),
                !.m.contents_of_last_page =
                    Slice(raw_bytes, full_page_remainder_len, Len(raw_bytes))
                        \o Zeros(PageSize - raw_bytes_remainder_len),
                !.m.file_limit = @ + Len(raw_bytes)]
        ELSE [x EXCEPT
                !.m.contents_of_last_page =
                    Slice(page, 0, pos_in_last_page) \o raw_bytes
                        \o Slice(page, total_len, PageSize),
                !.m.file_limit = @ + Len(raw_bytes)]

\* The growth step of _compress_and_write_if_full: the file is extended when
\* the size prefix and the compressed block would not fit.
grown(x, compressed) ==
    LET growth == CeilDiv(Min(GrowthCap, x.m.file_limit), PageSize) * PageSize
    IN  IF x.m.file_limit + 1 + Len(compressed) > file_size(x)
        THEN [x EXCEPT !.size = file_size(x) + growth]
        ELSE x

\* A _compress_and_write_if_full that lets the block fill up and writes it
\* at the next call.
compress_and_write_when_over(x) ==
    IF Len(x.cb) > compression_block_size
    THEN LET compressed == compress(x.cb)
             x1 == grown([x EXCEPT !.cb = <<>>], compressed)
             x2 == write_full_pages(x1, <<W(Len(compressed))>>)
         IN  write_full_pages(x2, compressed)
    ELSE x

\* _compress_and_write_if_full
compress_and_write_if_full(x) ==
    IF Len(x.cb) >= compression_block_size
    THEN LET compressed == compress(x.cb)
             x1 == grown([x EXCEPT !.cb = <<>>], compressed)
             x2 == write_full_pages(x1, <<W(Len(compressed))>>)
         IN  write_full_pages(x2, compressed)
    ELSE x

\* _coordinates_for_next_new_data_block
coordinates_for_next_new_data_block(x) == <<x.m.file_limit, Len(x.cb)>>

\* _add_data_block, as the appender it leaves; the coordinates it returns are
\* coordinates_for_next_new_data_block of the appender it started from.
add_data_block(x, data_block) ==
    compress_and_write_if_full([x EXCEPT !.cb = @ \o write_sized(data_block)])

\* RightmostPath.add_child_to_rightmost_node
RECURSIVE add_child_to_rightmost_node(_, _, _)
add_child_to_rightmost_node(x, child_coordinates, height) ==
    LET path == add_child(x.m.rightmost_path, height, child_coordinates)
        x1 == [x EXCEPT !.m.rightmost_path = path]
    IN  IF is_full(path[height])
        THEN LET coordinates_where_full_node_is_written ==
                     coordinates_for_next_new_data_block(x1)
                 x2 == [x1 EXCEPT !.cb = @ \o write_without_height(path[height]),
                                  !.m.rightmost_path[height] = <<>>]
             IN  add_child_to_rightmost_node(compress_and_write_if_full(x2),
                     coordinates_where_full_node_is_written, height + 1)
        ELSE x1

\* The buffered writes as the cells they leave in the file.
RECURSIVE apply_writes(_, _)
apply_writes(data, pend) ==
    IF pend = <<>> THEN data
    ELSE LET w == Head(pend)
         IN  apply_writes([o \in DOMAIN data \cup {w[1]} |->
                              IF o = w[1] THEN w[2] ELSE data[o]], Tail(pend))

-----------------------------------------------------------------------------
(* The read path of a handle h on the file d.  A lookup returns its value   *)
(* (ok: whether it returned, err: the exception otherwise) and the caches   *)
(* as the lookup leaves them.                                               *)

\* Optional[bytes]: None, or the bytes.
None == <<>>

Some(bytes) == <<bytes>>

\* The cell the handle's buffered file holds at an offset below its length.
RECURSIVE last_write(_, _, _)
last_write(pend, offset, otherwise) ==
    IF pend = <<>> THEN otherwise
    ELSE IF pend[Len(pend)][1] = offset THEN pend[Len(pend)][2]
    ELSE last_write(SubSeq(pend, 1, Len(pend) - 1), offset, otherwise)

file_cell(h, d, offset) ==
    last_write(h.pend, offset, IF offset \in DOMAIN d.data THEN d.data[offset] ELSE Zero)

\* file.seek(start); file.read(size): short at the end of the file.
file_read(h, d, start, size) ==
    LET end == Min(start + size, extent(h.pend, d.size))
    IN  [i \in 1..Max(end - start, 0) |-> file_cell(h, d, start + i - 1)]

\* A faulty _fetch_data that reads the file alone and never the last page
\* held in the master node.
fetch_data_from_file_only(h, d, start_position, size) ==
    file_read(h, d, start_position, size)

\* _fetch_data
fetch_data(h, d, start_position, size) ==
    LET written_limit == (h.master.file_limit \div PageSize) * PageSize
        end_position == start_position + size
        page == h.master.contents_of_last_page
    IN  IF start_position < written_limit
        THEN IF end_position <= written_limit
             THEN file_read(h, d, start_position, size)
             ELSE file_read(h, d, start_position, written_limit - start_position)
                    \o Slice(page, 0, size - (written_limit - start_position))
        ELSE Slice(page, start_position - written_limit,
                   start_position - written_limit + size)

\* int.from_bytes of the size read: a number only where a size was written;
\* the cells of a compressed block read as a size run past the file.
size_from_bytes(buffer) ==
    IF buffer = <<>> THEN 0
    ELSE IF IsW(buffer[1]) THEN buffer[1][2]
    ELSE compression_block_size * 2

\* _fetch_sized_data
fetch_sized_data(h, d, start_position) ==
    fetch_data(h, d, start_position + 1,
               size_from_bytes(fetch_data(h, d, start_position, 1)))

\* functools.lru_cache(maxsize=CacheSize): entries <<key, value>>, the most
\* recently used last.
cache_has(cache, key) == \E i \in 1..Len(cache) : cache[i][1] = key

cache_index(cache, key) == CHOOSE i \in 1..Len(cache) : cache[i][1] = key

cache_value(cache, key) == cache[cache_index(cache, key)][2]

cache_touch(cache, key) ==
    SubSeq(cache, 1, cache_index(cache, key) - 1)
        \o SubSeq(cache, cache_index(cache, key) + 1, Len(cache))
        \o <<cache[cache_index(cache, key)]>>

cache_put(cache, key, value) ==
    IF Len(cache) + 1 > CacheSize
    THEN Tail(Append(cache, <<key, value>>))
    ELSE Append(cache, <<key, value>>)

Returned(v, bc, nc) == [ok |-> TRUE, v |-> v, err |-> "", bcache |-> bc, ncache |-> nc]

Failed(err, bc, nc) == [ok |-> FALSE, v |-> <<>>, err |-> err, bcache |-> bc, ncache |-> nc]

\* zlib.decompress of the bytes fetched, put in the block cache.
decompressed_into(bc, nc, file_position, compressed_bytes) ==
    IF decompressible(compressed_bytes)
    THEN Returned(decompress(compressed_bytes),
                  cache_put(bc, file_position, decompress(compressed_bytes)), nc)
    ELSE Failed("zlib.error", bc, nc)

\* _block_cache_method, through the lru_cache on a miss
block_cache_method(h, d, bc, nc, file_position) ==
    decompressed_into(bc, nc, file_position, fetch_sized_data(h, d, file_position))

\* _block: the compression block at file_limit, the block cache elsewhere.
block(h, d, bc, nc, file_position) ==
    IF file_position = h.master.file_limit THEN Returned(h.cblock, bc, nc)
    ELSE IF cache_has(bc, file_position)
    THEN Returned(cache_value(bc, file_position), cache_touch(bc, file_position), nc)
    ELSE block_cache_method(h, d, bc, nc, file_position)

\* full_node_struct.unpack_from(block, child.data_start)
unpack_full_node(b, nc, child) ==
    IF ~b.ok THEN b
    ELSE IF child[2] + FanOut > Len(b.v) THEN Failed("struct.error", b.bcache, nc)
    ELSE Returned([i \in 1..FanOut |-> from_bytes(b.v[child[2] + i])], b.bcache, nc)

\* _full_node_cache_method
full_node_cache_method(h, d, bc, nc, child) ==
    unpack_full_node(block(h, d, bc, nc, child[1]), nc, child)

\* The lru_cache of _full_node_cache_method on a miss.
full_node_cached(n, child) ==
    IF n.ok THEN Returned(n.v, n.bcache, cache_put(n.ncache, child, n.v)) ELSE n

\* _full_node_cache
full_node_cache(h, d, bc, nc, child) ==
    IF cache_has(nc, child)
    THEN Returned(cache_value(nc, child), bc, cache_touch(nc, child))
    ELSE full_node_cached(full_node_cache_method(h, d, bc, nc, child), child)

\* struct.unpack_from(">L", block, data_start) and the slice it sizes.
sized_slice(b, nc, coordinates) ==
    IF ~b.ok THEN b
    ELSE IF coordinates[2] + 1 > Len(b.v) THEN Failed("struct.error", b.bcache, nc)
    ELSE Returned(Slice(b.v, coordinates[2] + 1,
                        coordinates[2] + 1 + size_from_bytes(<<b.v[coordinates[2] + 1]>>)),
                  b.bcache, nc)

\* DataCoordinates.sized_data_block
sized_data_block(h, d, bc, nc, coordinates) ==
    sized_slice(block(h, d, bc, nc, coordinates[1]), nc, coordinates)

\* str(record, encoding) of the block found, the bytes without an encoding.
decoded_block(b, encoding) ==
    IF ~b.ok THEN b
    ELSE IF decoded(ByteValues(b.v), encoding).t \in {"bytes", "str"}
    THEN Returned(decoded(ByteValues(b.v), encoding), b.bcache, b.ncache)
    ELSE Failed(decoded(ByteValues(b.v), encoding).t, b.bcache, b.ncache)

\* DataCoordinates.record
record(h, d, bc, nc, coordinates) ==
    decoded_block(sized_data_block(h, d, bc, nc, coordinates), h.encoding)

\* The second loop of record_at: from the coordinates of a full node at the
\* given level down to the coordinates of the record.
RECURSIVE descend(_, _, _, _, _, _, _)
RECURSIVE descend_from(_, _, _, _, _)
descend(h, d, bc, nc, coordinates, path, level) ==
    IF level = 0 THEN Returned(coordinates, bc, nc)
    ELSE descend_from(h, d, full_node_cache(h, d, bc, nc, coordinates), path, level)

\* One turn of the loop, on the full node fetched.
descend_from(h, d, n, path, level) ==
    IF ~n.ok THEN n
    ELSE descend(h, d, n.bcache, n.ncache, n.v[path[level] + 1], path, level - 1)

\* The first loop of record_at: the highest level at which the path leaves
\* the rightmost nodes, 1 when it never does (without a break the loop ends
\* on the leaf node).
RECURSIVE leaving_level(_, _, _)
leaving_level(nodes, path, level) ==
    IF level <= 1 THEN 1
    ELSE IF path[level] /= Len(nodes[level]) THEN level
    ELSE leaving_level(nodes, path, level - 1)

\* The return of record_at: the record at the coordinates found.
record_found(h, d, c) ==
    IF ~c.ok THEN c ELSE record(h, d, c.bcache, c.ncache, c.v)

\* record_at from the level where the path leaves the rightmost nodes.
record_from(h, d, nodes, path, at) ==
    IF path[at] + 1 > Len(nodes[at])
    THEN Failed("IndexError", h.bcache, h.ncache)
    ELSE record_found(h, d, descend(h, d, h.bcache, h.ncache,
                                    nodes[at][path[at] + 1], path, at - 1))

\* record_at, for a handle that is open
\* A record_at whose range check lets the number after the last record
\* through.
record_at_off_by_one(h, d, record_number) ==
    IF record_number < 1 \/ record_number > h.record_count + 1
    THEN Failed("IndexError", h.bcache, h.ncache)
    ELSE IF Len(h.master.rightmost_path) = 0
    THEN Failed("UnboundLocalError", h.bcache, h.ncache)
    ELSE record_from(h, d, h.master.rightmost_path,
             leaf_to_root_path(record_number - 1, Len(h.master.rightmost_path)),
             leaving_level(h.master.rightmost_path,
                 leaf_to_root_path(record_number - 1, Len(h.master.rightmost_path)),
                 Len(h.master.rightmost_path)))

record_at(h, d, record_number) ==
    IF record_number < 1 \/ record_number > h.record_count
    THEN Failed("IndexError", h.bcache, h.ncache)
    ELSE IF Len(h.master.rightmost_path) = 0
    THEN Failed("UnboundLocalError", h.bcache, h.ncache)
    ELSE record_from(h, d, h.master.rightmost_path,
             leaf_to_root_path(record_number - 1, Len(h.master.rightmost_path)),
             leaving_level(h.master.rightmost_path,
                 leaf_to_root_path(record_number - 1, Len(h.master.rightmost_path)),
                 Len(h.master.rightmost_path)))

\* get_metadata on a _metadata of None: the block read and kept.
metadata_read(h, b) ==
    IF b.ok
    THEN [v |-> Some(ByteValues(b.v)), metadata |-> Some(ByteValues(b.v)),
          ok |-> TRUE, err |-> "", bcache |-> b.bcache]
    ELSE [v |-> None, metadata |-> h.metadata, ok |-> FALSE, err |-> b.err,
          bcache |-> b.bcache]

\* get_metadata, for a handle that is open: the value and the _metadata the
\* call leaves.
get_metadata(h, d) ==
    IF is_null(h.master.metadata_pointer)
    THEN [v |-> None, metadata |-> h.metadata, ok |-> TRUE, err |-> "",
          bcache |-> h.bcache]
    ELSE IF h.metadata = None
    THEN metadata_read(h, sized_data_block(h, d, h.bcache, h.ncache,
                                           h.master.metadata_pointer))
    ELSE [v |-> h.metadata, metadata |-> h.metadata, ok |-> TRUE, err |-> "",
          bcache |-> h.bcache]

-----------------------------------------------------------------------------
(* record_generator: the generator as the frames it is suspended in.        *)

\* A frame of the generator: a call of _record_generator or of
\* _record_generator_for_perfect_subtree that has not run yet ("call_..."),
\* or one suspended in its for loop, with the values of its local variables.
\* "exported" tells that the block the frame holds is the memoryview
\* _compression_block.getbuffer() returned.
Frame(kind, node, blk, offset, left, height, power, child_index, index_remaining) ==
    [kind |-> kind, node |-> node, block |-> blk, exported |-> FALSE,
     offset |-> offset, left |-> left,
     height |-> height, power |-> power, child_index |-> child_index,
     index_remaining |-> index_remaining]

\* self._record_generator(index_remaining, rightmost_path, height, power)
record_generator_call(index_remaining, height, power) ==
    Frame("call_rightmost", NullCoordinates, <<>>, 0, 0, height, power, 0,
          index_remaining)

\* A call for a perfect subtree that starts at its first record whatever
\* index remains.
perfect_subtree_call_from_first(index_remaining, node, height, power) ==
    Frame("call_perfect", node, <<>>, 0, 0, height, power, 0, 0)

\* self._record_generator_for_perfect_subtree(index_remaining, node, height, power)
perfect_subtree_call(index_remaining, node, height, power) ==
    Frame("call_perfect", node, <<>>, 0, 0, height, power, 0, index_remaining)

\* What next() on the generator comes to: a value yielded, StopIteration, or
\* another exception; the frames and the caches it leaves.
Yielded(v, bc, nc, frames) ==
    [kind |-> "yield", v |-> v, err |-> "", bcache |-> bc, ncache |-> nc,
     frames |-> frames]

Stopped(err, bc, nc) ==
    [kind |-> "raise", v |-> <<>>, err |-> err, bcache |-> bc, ncache |-> nc,
     frames |-> <<>>]

\* yield child_node.record(self)
yield_record(r, frames) ==
    IF r.ok THEN Yielded(r.v, r.bcache, r.ncache, frames)
    ELSE Stopped(r.err, r.bcache, r.ncache)

RECURSIVE generator_next(_, _, _, _, _, _)
RECURSIVE record_generator_entered(_, _, _, _, _, _, _)
RECURSIVE record_generator_loop(_, _, _, _, _, _, _)
RECURSIVE perfect_subtree_entered(_, _, _, _, _, _)
RECURSIVE perfect_subtree_loop(_, _, _, _, _, _, _)

\* _record_generator up to its for loop: rightmost_node(height), the power
\* divided and divmod(index_remaining, power).
record_generator_entered(h, d, bc, nc, path, rest, f) ==
    IF f.height = 0
    THEN Stopped("IndexError", bc, nc)
    ELSE generator_next(h, d, bc, nc, path,
             Append(rest, [f EXCEPT
                 !.kind = "rightmost",
                 !.power = f.power \div FanOut,
                 !.child_index = f.index_remaining \div (f.power \div FanOut),
                 !.index_remaining = f.index_remaining % (f.power \div FanOut)]))

\* The for loop of _record_generator over the children of the rightmost
\* node of its height, and the call for the next height down after it.
record_generator_loop(h, d, bc, nc, path, rest, f) ==
    IF f.child_index < Len(path[f.height])
    THEN IF f.height = 1
         THEN yield_record(record(h, d, bc, nc, path[1][f.child_index + 1]),
                           Append(rest, [f EXCEPT !.child_index = @ + 1]))
         ELSE generator_next(h, d, bc, nc, path,
                  rest \o <<[f EXCEPT !.child_index = @ + 1, !.index_remaining = 0],
                            perfect_subtree_call(f.index_remaining,
                                path[f.height][f.child_index + 1],
                                f.height - 1, f.power)>>)
    ELSE IF f.height > 1
    THEN generator_next(h, d, bc, nc, path,
             Append(rest, record_generator_call(f.index_remaining, f.height - 1,
                                                f.power)))
    ELSE generator_next(h, d, bc, nc, path, rest)

\* _record_generator_for_perfect_subtree up to its for loop, on the block
\* self._block(starting_node.compressed_block_start) has returned.
perfect_subtree_entered(h, d, path, rest, f, b) ==
    IF ~b.ok THEN Stopped(b.err, b.bcache, b.ncache)
    ELSE generator_next(h, d, b.bcache, b.ncache, path,
             Append(rest, [f EXCEPT
                 !.kind = "perfect",
                 !.block = b.v,
                 !.exported = (f.node[1] = h.master.file_limit),
                 !.power = f.power \div FanOut,
                 !.offset = f.node[2] + f.index_remaining \div (f.power \div FanOut),
                 !.left = FanOut - f.index_remaining \div (f.power \div FanOut),
                 !.index_remaining = f.index_remaining % (f.power \div FanOut)]))

\* The for loop of _record_generator_for_perfect_subtree over the children
\* packed in the block.
perfect_subtree_loop(h, d, bc, nc, path, rest, f) ==
    IF f.left <= 0 THEN generator_next(h, d, bc, nc, path, rest)
    ELSE IF f.offset + 1 > Len(f.block) THEN Stopped("struct.error", bc, nc)
    ELSE IF f.height = 1
    THEN yield_record(record(h, d, bc, nc, from_bytes(f.block[f.offset + 1])),
                      Append(rest, [f EXCEPT !.offset = @ + 1, !.left = @ - 1]))
    ELSE generator_next(h, d, bc, nc, path,
             rest \o <<[f EXCEPT !.offset = @ + 1, !.left = @ - 1,
                                 !.index_remaining = 0],
                       perfect_subtree_call(f.index_remaining,
                           from_bytes(f.block[f.offset + 1]),
                           f.height - 1, f.power)>>)

\* next() on the generator: the frames run until one yields or the outermost
\* returns (StopIteration).
generator_next(h, d, bc, nc, path, frames) ==
    IF frames = <<>> THEN Stopped("StopIteration", bc, nc)
    ELSE IF frames[Len(frames)].kind = "call_rightmost"
    THEN record_generator_entered(h, d, bc, nc, path,
             SubSeq(frames, 1, Len(frames) - 1), frames[Len(frames)])
    ELSE IF frames[Len(frames)].kind = "rightmost"
    THEN record_generator_loop(h, d, bc, nc, path,
             SubSeq(frames, 1, Len(frames) - 1), frames[Len(frames)])
    ELSE IF frames[Len(frames)].kind = "call_perfect"
    THEN perfect_subtree_entered(h, d, path,
             SubSeq(frames, 1, Len(frames) - 1), frames[Len(frames)],
             block(h, d, bc, nc, frames[Len(frames)].node[1]))
    ELSE perfect_subtree_loop(h, d, bc, nc, path,
             SubSeq(frames, 1, Len(frames) - 1), frames[Len(frames)])

\* record_generator(starting_record_number), for a handle that is open: the
\* generator returned, with the copy of the rightmost path it keeps.
record_generator(h, starting_record_number) ==
    [live |-> TRUE,
     path |-> h.master.rightmost_path,
     frames |-> <<record_generator_call(starting_record_number - 1,
                      Len(h.master.rightmost_path),
                      power_of_fan_out(Len(h.master.rightmost_path)))>>,
     start |-> starting_record_number, count |-> h.record_count, got |-> 0]

\* No generator.  Next to the generator's own state (path, frames) are kept
\* the record number it was asked to start at, the record count when it was
\* made and the number of items it has yielded.
NoGenerator ==
    [live |-> FALSE, path |-> <<>>, frames |-> <<>>, start |-> 1, count |-> 0,
     got |-> 0]

-----------------------------------------------------------------------------
(* Handles, processes and what the caller passes. *)

Handles == {1, 2, 3}

\* The process each CaptureFile object lives in: two share a process.
ProcOf == <<1, 1, 2>>

Procs == {1, 2}

\* Records passed to add_record: bytes, a str with a two-byte character, and
\* bytes that are not UTF-8.
Records == {Bytes(<<97>>), Str(<<233>>), Bytes(<<255>>)}

\* Values passed to set_metadata and as initial_metadata.
Metadata == {None, Some(<<7>>), Some(<<8, 9>>)}

\* What a handle's state stands for: the bytes of its records, in order, and
\* its metadata.
Content(recs, meta) == [recs |-> recs, meta |-> meta]

\* A CaptureFile object that has not opened a file; master, cblock and
\* record_count are not set before the first refresh.  arg is what the
\* object's last open, or its constructor, was passed.
NewMaster == MasterNode(0, initial_file_limit, NullCoordinates, <<>>, Zeros(PageSize), <<>>)

\* A file_name is a root ("/" or none) and the components after it; the
\* current directory of every process is /dir.
DefaultFileName == <<"/", <<"dir", "f.capture">>>>

\* Path(file_name): pathlib drops the "." components and the empty ones, and
\* keeps the rest as written: it neither makes the path absolute nor resolves
\* "..".
Path(file_name) == <<file_name[1], SelectSeq(file_name[2], LAMBDA c : c \notin {".", ""})>>

FreshHandle(encoding) ==
    [file_name |-> DefaultFileName,
     file |-> FALSE, to_write |-> FALSE, encoding |-> encoding, metadata |-> None,
     master |-> NewMaster, cblock |-> <<>>, record_count |-> 0,
     bcache |-> <<>>, ncache |-> <<>>, pend |-> <<>>, pc |-> "idle", call |-> "", arg |-> <<>>,
     attempt |-> 0, slept |-> 0, gen |-> NoGenerator]

\* A new object for the file_name and the encoding of the handle's object.
Reconstructed(h) == [FreshHandle(hs[h].encoding) EXCEPT !.file_name = hs[h].file_name]

\* set_metadata on an appender: the metadata pointer it leaves.
\* A set_metadata that leaves the metadata pointer alone when the metadata is
\* cleared.
with_metadata_kept(x, new_metadata) ==
    IF new_metadata = None
    THEN x
    ELSE [add_data_block(x, new_metadata[1]) EXCEPT
             !.m.metadata_pointer = coordinates_for_next_new_data_block(x)]

with_metadata(x, new_metadata) ==
    IF new_metadata = None
    THEN [x EXCEPT !.m.metadata_pointer = NullCoordinates]
    ELSE [add_data_block(x, new_metadata[1]) EXCEPT
             !.m.metadata_pointer = coordinates_for_next_new_data_block(x)]

\* The master node _write_master_node writes: the compression block as it is.
master_to_write(m, cb) == [m EXCEPT !.compression_block_contents = cb]

\* A _new_file that commits once: the second master slot is left as
\* CaptureFileConfiguration.write filled it.
new_file_committed_once(initial_metadata) ==
    LET x0 == Appender(NewMaster, <<>>, <<>>, initial_file_limit)
        x1 == with_metadata(x0, initial_metadata)
        m1 == increment_serial_number(x1.m)
        first == slot_image(master_to_write(m1, x1.cb))
        blank == [first EXCEPT !.crc = crc32(<<>>)]
        last == PageSize * InitialPages - 1
    IN  [exists |-> TRUE,
         header |-> [length |-> HeaderSize, capture_file_type |-> "MioCapture",
                     version |-> CurrentVersion],
         slots |-> [i \in {1, 2} |-> IF i = slot_of(m1) THEN first ELSE blank],
         data |-> apply_writes(<<>>, x1.pend \o <<<<last, Zero>>>>),
         size |-> Max(extent(x1.pend, x1.size), last + 1)]

\* _new_file: the file it leaves at file_name.  The configuration page, then
\* the initial metadata and two commits, then the byte written at the end of
\* the last of the initial pages.
new_file(initial_metadata) ==
    LET x0 == Appender(NewMaster, <<>>, <<>>, initial_file_limit)
        x1 == with_metadata(x0, initial_metadata)
        m1 == increment_serial_number(x1.m)
        m2 == increment_serial_number(m1)
        first == slot_image(master_to_write(m1, x1.cb))
        second == slot_image(master_to_write(m2, x1.cb))
        last == PageSize * InitialPages - 1
        data == apply_writes(<<>>, x1.pend \o <<<<last, Zero>>>>)
    IN  [exists |-> TRUE,
         header |-> [length |-> HeaderSize, capture_file_type |-> "MioCapture",
                     version |-> CurrentVersion],
         slots |-> [i \in {1, 2} |-> IF i = slot_of(m1) THEN first ELSE second],
         data |-> data,
         size |-> Max(extent(x1.pend, x1.size), last + 1)]

\* _new_file after its second commit: the temporary file before the byte at
\* the end of the last initial page is written.
new_file_committed_twice(initial_metadata) ==
    LET x0 == Appender(NewMaster, <<>>, <<>>, initial_file_limit)
        x1 == with_metadata(x0, initial_metadata)
    IN  [new_file(initial_metadata) EXCEPT
            !.data = apply_writes(<<>>, x1.pend),
            !.size = extent(x1.pend, x1.size)]

\* No file at file_name.
NoFile ==
    [new_file(None) EXCEPT !.exists = FALSE, !.header.length = 0, !.size = 0]

-----------------------------------------------------------------------------
(* Byte-range locks.  fcntl.lockf locks belong to the process: they never   *)
(* conflict within it, a new lock on a range replaces the process's old     *)
(* one, and closing any descriptor of the file drops all of them.           *)
(* msvcrt.locking locks belong to the descriptor and are exclusive.         *)

Owner(h) == IF oslocks.platform = "posix" THEN <<"process", ProcOf[h]>> ELSE <<"fd", h>>

\* A faulty _acquire_lock_for_writing that never finds the byte locked.
writer_lock_unchecked(h) == oslocks.platform \in {"posix", "windows"}

\* _acquire_lock_for_writing: whether the lock on the writer's byte is granted.
writer_lock_granted(h) ==
    IF oslocks.platform = "posix"
    THEN \A o \in oslocks.writer : o = Owner(h)
    ELSE oslocks.writer = {}

\* _acquire_master_nodes_lock_internal(True): the lock type asked for.
lock_type(h) ==
    IF oslocks.platform = "posix" /\ ~hs[h].to_write THEN "LOCK_SH" ELSE "LOCK_EX"

master_lock_granted(h) ==
    IF oslocks.platform = "posix"
    THEN \A l \in oslocks.master :
            l[1] = Owner(h) \/ (lock_type(h) = "LOCK_SH" /\ l[2] = "LOCK_SH")
    ELSE oslocks.master = {}

master_locked(locks, h) ==
    {l \in locks : l[1] /= Owner(h)} \cup {<<Owner(h), lock_type(h)>>}

\* A faulty _acquire_master_nodes_lock whose finally clause releases nothing.
master_left_locked(locks, h) == locks

\* _acquire_master_nodes_lock_internal(False)
master_unlocked(locks, h) == {l \in locks : l[1] /= Owner(h)}

\* file.close() of a handle's descriptor, on the locks.
locks_after_close(h) ==
    [oslocks EXCEPT !.writer = {o \in @ : o /= Owner(h)},
                    !.master = {l \in @ : l[1] /= Owner(h)}]

-----------------------------------------------------------------------------
(* Outcomes of operations. *)

Number(n) == [t |-> "int", v |-> <<n>>]

NoValue == [t |-> "None", v |-> <<>>]

OptionalBytes(o) == IF o = None THEN NoValue ELSE Bytes(o[1])

\* The last call: the handle, the method, its arguments and what came of it.
OutcomeOf(h, op, arg, value) == [h |-> h, op |-> op, arg |-> arg, value |-> value]

Outcome(h, op, value) == OutcomeOf(h, op, <<>>, value)

\* The value of a call that has not returned yet.
Pending == [t |-> "pending", v |-> <<>>]

\* The file once a handle's buffered writes are handed to the operating system.
flushed(d, pend) ==
    [d EXCEPT !.data = apply_writes(@, pend), !.size = extent(pend, @)]

\* A CaptureFileConfiguration.read that accepts every version.
config_read_any_version(header) ==
    IF header.length < HeaderSize THEN "struct.error"
    ELSE IF header.capture_file_type \notin {"MioCapture", "WebCapture"}
    THEN "InvalidCaptureFile"
    ELSE ""

\* CaptureFileConfiguration.read: the exception it raises, "" when none.
\* struct.unpack raises struct.error on a buffer that is not of struct.size.
config_read(header) ==
    IF header.length < HeaderSize THEN "struct.error"
    ELSE IF header.capture_file_type \notin {"MioCapture", "WebCapture"}
    THEN "InvalidCaptureFile"
    ELSE IF header.version > CurrentVersion THEN "InvalidCaptureFile"
    ELSE ""

-----------------------------------------------------------------------------
(* open and close. *)

\* Whether a suspended frame of the handle's generator holds a memoryview of
\* the handle's compression block: BytesIO.write raises BufferError then.
compression_block_exported(h) ==
    \E i \in 1..Len(hs[h].gen.frames) : hs[h].gen.frames[i].exported

\* _init_compression_block in __refresh: the memoryviews held are of the
\* BytesStream that was replaced.
with_new_compression_block(gen) ==
    [gen EXCEPT !.frames = [i \in 1..Len(@) |-> [@[i] EXCEPT !.exported = FALSE]]]

\* close(), on the handle, the file, the locks and the registry.
closed_handle(h) ==
    [hs[h] EXCEPT !.file = FALSE, !.pend = <<>>, !.pc = "idle", !.call = "", !.attempt = 0,
                  !.slept = 0]

\* A close() that leaves the name among those open for write.
registry_not_removed(h) == registry

registry_after_close(h) ==
    IF hs[h].to_write
    THEN [registry EXCEPT ![ProcOf[h]] = @ \ {Path(hs[h].file_name)}]
    ELSE registry

\* open(to_write) on a closed CaptureFile object in state h0, the file being
\* d: the part before the refresh.  op and arg are the caller's call.
opened(h, h0, d, to_write, op, arg) ==
    IF to_write /\ Path(h0.file_name) \in registry[ProcOf[h]]
    THEN /\ ret' = OutcomeOf(h, op, arg, Raised("CaptureFileAlreadyOpen"))
         /\ hs' = [hs EXCEPT ![h] = h0]
         /\ UNCHANGED <<oslocks, registry>>
    ELSE IF ~d.exists
    THEN \* the builtin open raises after self.to_write is assigned
         /\ ret' = OutcomeOf(h, op, arg, Raised("FileNotFoundError"))
         /\ hs' = [hs EXCEPT ![h] = [h0 EXCEPT !.to_write = to_write]]
         /\ UNCHANGED <<oslocks, registry>>
    ELSE IF to_write /\ ~writer_lock_granted(h)
    THEN \* the descriptor is closed again
         /\ ret' = OutcomeOf(h, op, arg, Raised("CaptureFileAlreadyOpen"))
         /\ hs' = [hs EXCEPT ![h] = [h0 EXCEPT !.to_write = to_write]]
         /\ oslocks' = locks_after_close(h)
         /\ UNCHANGED registry
    ELSE /\ oslocks' = IF to_write
                       THEN [oslocks EXCEPT !.writer = @ \cup {Owner(h)}]
                       ELSE oslocks
         /\ registry' = IF to_write
                        THEN [registry EXCEPT ![ProcOf[h]] = @ \cup {Path(h0.file_name)}]
                        ELSE registry
         /\ IF config_read(d.header) /= ""
            THEN \* the exception leaves open() with the file open
                 /\ hs' = [hs EXCEPT ![h] =
                              [h0 EXCEPT !.to_write = to_write, !.file = TRUE]]
                 /\ ret' = OutcomeOf(h, op, arg, Raised(config_read(d.header)))
            ELSE /\ hs' = [hs EXCEPT ![h] =
                              [h0 EXCEPT !.to_write = to_write, !.file = TRUE,
                                         !.pc = "rwait", !.call = op, !.arg = arg,
                                         !.attempt = 0, !.slept = 0]]
                 /\ ret' = OutcomeOf(h, op, arg, Pending)

\* open(to_write)
Open(h, to_write) ==
    /\ hs[h].pc = "idle"
    /\ UNCHANGED <<disk, history, view>>
    /\ IF hs[h].file
       THEN /\ ret' = OutcomeOf(h, "open", <<to_write>>, Raised("CaptureFileAlreadyOpen"))
            /\ UNCHANGED <<oslocks, registry, hs>>
       ELSE opened(h, hs[h], disk, to_write, "open", <<to_write>>)

\* The ghost history of a file _new_file has just left at file_name.
created(initial_metadata) ==
    [history EXCEPT !.slots = [i \in {1, 2} |-> Content(<<>>, initial_metadata)],
                    !.log = <<Content(<<>>, initial_metadata)>>]

\* CaptureFile(file_name, to_write, initial_metadata, force_new_empty_file):
\* a closed object is dropped and a new one constructed in its place;
\* __post_init__ up to the refresh of open().  _new_file builds the file
\* under a temporary name, closes it and moves it to file_name; it leaves
\* self.to_write True and self._metadata as set_metadata assigned it.  The
\* file moved to file_name is a new one: the locks other descriptors hold
\* are on the file that was there before, and open() finds none.
Construct(h, to_write, initial_metadata, force_new_empty_file) ==
    LET arg == <<to_write, initial_metadata, force_new_empty_file>>
        h0 == Reconstructed(h)
    IN  /\ hs[h].pc = "idle"
        /\ ~hs[h].file
        /\ UNCHANGED view
        /\ IF force_new_empty_file \/ (to_write /\ ~disk.exists)
           THEN IF Path(h0.file_name) \in registry[ProcOf[h]]
                THEN /\ ret' = OutcomeOf(h, "CaptureFile", arg,
                                         Raised("CaptureFileAlreadyOpen"))
                     /\ hs' = [hs EXCEPT ![h] = h0]
                     /\ UNCHANGED <<disk, oslocks, registry, history>>
                ELSE /\ disk' = new_file(initial_metadata)
                     /\ history' = created(initial_metadata)
                     /\ oslocks' = [oslocks EXCEPT !.writer = {Owner(h)},
                                                   !.master = {}]
                     /\ registry' = [registry EXCEPT
                                        ![ProcOf[h]] = @ \cup {Path(h0.file_name)}]
                     /\ hs' = [hs EXCEPT ![h] =
                                  [h0 EXCEPT !.to_write = TRUE,
                                             !.metadata = initial_metadata,
                                             !.file = TRUE, !.pc = "rwait",
                                             !.call = "CaptureFile", !.arg = arg]]
                     /\ ret' = OutcomeOf(h, "CaptureFile", arg, Pending)
           ELSE /\ UNCHANGED <<disk, history>>
                /\ opened(h, h0, disk, to_write, "CaptureFile", arg)

\* close()
Close(h) ==
    /\ hs[h].pc = "idle"
    /\ UNCHANGED <<history, view>>
    /\ ret' = Outcome(h, "close", NoValue)
    /\ IF hs[h].file
       THEN /\ disk' = flushed(disk, hs[h].pend)
            /\ hs' = [hs EXCEPT ![h] = closed_handle(h)]
            /\ oslocks' = locks_after_close(h)
            /\ registry' = registry_after_close(h)
       ELSE UNCHANGED <<disk, hs, oslocks, registry>>

\* A closed CaptureFile object is dropped and a new one constructed in its
\* place: nothing of the old object's caches is left.
Discard(h) ==
    /\ hs[h].pc = "idle"
    /\ ~hs[h].file
    /\ hs[h] /= Reconstructed(h)
    /\ hs' = [hs EXCEPT ![h] = Reconstructed(h)]
    /\ ret' = Outcome(h, "new", NoValue)
    /\ UNCHANGED <<disk, oslocks, registry, history, view>>

-----------------------------------------------------------------------------
(* refresh: the lock, then the two master nodes read under it. *)

\* refresh(), up to the first __refresh
Refresh(h) ==
    /\ hs[h].pc = "idle"
    /\ UNCHANGED <<disk, oslocks, registry, history, view>>
    /\ IF hs[h].file
       THEN /\ hs' = [hs EXCEPT ![h].pc = "rwait", ![h].call = "refresh",
                                ![h].attempt = 0, ![h].slept = 0]
            /\ ret' = Outcome(h, "refresh", Pending)
       ELSE /\ ret' = Outcome(h, "refresh", Raised("CaptureFileNotOpen"))
            /\ UNCHANGED hs

\* __refresh: _acquire_master_nodes_lock_internal(True) returns.
RefreshLock(h) ==
    /\ hs[h].pc = "rwait"
    /\ master_lock_granted(h)
    /\ oslocks' = [oslocks EXCEPT !.master = master_locked(@, h)]
    /\ hs' = [hs EXCEPT ![h].pc = "rread"]
    /\ UNCHANGED <<disk, registry, history, view, ret>>

\* _decode_master_nodes: None for a slot whose crc does not match.
decode_master_nodes(d) ==
    [i \in {1, 2} |-> IF crc_ok(d.slots[i]) THEN Some(new_from(d.slots[i].buffer)) ELSE None]

\* A choice of master node that wants both slots to decode.
both_valid_master_node_index(nodes) ==
    IF nodes[1] = None \/ nodes[2] = None THEN 0
    ELSE IF (nodes[1][1].serial_number - nodes[2][1].serial_number)
                % SerialModulus = 1
    THEN 1 ELSE 2

\* A choice of master node that compares the serial numbers without
\* truncating the difference to 32 bits.
untruncated_master_node_index(nodes) ==
    IF nodes[1] = None /\ nodes[2] = None THEN 0
    ELSE IF nodes[1] /= None /\ nodes[2] /= None
    THEN LET delta == nodes[1][1].serial_number - nodes[2][1].serial_number
         IN  IF delta \notin {1, -1} THEN 0
             ELSE IF delta = 1 THEN 1 ELSE 2
    ELSE IF nodes[1] /= None THEN 1 ELSE 2

\* __refresh under the lock: the index of the current master node, 0 when
\* InvalidCaptureFile is raised.
current_master_node_index(nodes) ==
    IF nodes[1] = None /\ nodes[2] = None THEN 0
    ELSE IF nodes[1] /= None /\ nodes[2] /= None
    THEN LET delta == (nodes[1][1].serial_number - nodes[2][1].serial_number)
                          % SerialModulus
         IN  IF delta \notin {1, SerialModulus - 1} THEN 0
             ELSE IF delta = 1 THEN 1 ELSE 2
    ELSE IF nodes[1] /= None THEN 1 ELSE 2

\* A refresh that gives up after its second attempt.
retried_once(retry_count) == retry_count < 1

\* refresh: whether the attempt numbered retry_count, of 0, 1 and 2, is
\* followed by another when it raises InvalidCaptureFile.
retried(retry_count) == retry_count < 2

\* __refresh under the lock, the unlock, and what refresh does with the result.
RefreshRead(h) ==
    LET nodes == decode_master_nodes(disk)
        index == current_master_node_index(nodes)
        unlocked == [oslocks EXCEPT !.master = master_unlocked(@, h)]
    IN  /\ hs[h].pc = "rread"
        /\ UNCHANGED history
        /\ IF index /= 0
           THEN LET node == nodes[index][1]
                IN  /\ hs' = [hs EXCEPT
                                ![h].master = node,
                                ![h].cblock = node.compression_block_contents,
                                ![h].record_count =
                                    compute_record_count(node.rightmost_path),
                                ![h].gen = with_new_compression_block(@),
                                ![h].pc = "idle", ![h].call = "",
                                ![h].attempt = 0, ![h].slept = 0]
                    /\ oslocks' = unlocked
                    /\ view' = [view EXCEPT ![h] = history.slots[index]]
                    /\ ret' = Outcome(h, hs[h].call, NoValue)
                    /\ UNCHANGED <<disk, registry>>
           ELSE IF retried(hs[h].attempt)
           THEN \* retry at once, and after sleep(4) the second time
                /\ hs' = [hs EXCEPT
                            ![h].pc = "rwait", ![h].attempt = @ + 1,
                            ![h].slept = IF hs[h].attempt = 1 THEN @ + RetrySleep ELSE @]
                /\ oslocks' = unlocked
                /\ UNCHANGED <<disk, registry, view, ret>>
           ELSE \* the third InvalidCaptureFile: close() and raise
                /\ hs' = [hs EXCEPT ![h] = closed_handle(h)]
                /\ oslocks' = locks_after_close(h)
                /\ registry' = registry_after_close(h)
                /\ disk' = flushed(disk, hs[h].pend)
                /\ ret' = Outcome(h, hs[h].call, Raised("InvalidCaptureFile"))
                /\ UNCHANGED view

\* msvcrt.locking(LK_LOCK) gives up and raises OSError; refresh closes the
\* file and raises it again.
RefreshTimeout(h) ==
    /\ hs[h].pc = "rwait"
    /\ oslocks.platform = "windows"
    /\ ~master_lock_granted(h)
    /\ hs' = [hs EXCEPT ![h] = closed_handle(h)]
    /\ oslocks' = locks_after_close(h)
    /\ registry' = registry_after_close(h)
    /\ disk' = flushed(disk, hs[h].pend)
    /\ ret' = Outcome(h, hs[h].call, Raised("OSError"))
    /\ UNCHANGED <<history, view>>

-----------------------------------------------------------------------------
(* add_record, set_metadata and the reads. *)

appender_of(h) == Appender(hs[h].master, hs[h].cblock, hs[h].pend, disk.size)

appended(h, x) ==
    [hs[h] EXCEPT !.master = x.m, !.cblock = x.cb, !.pend = x.pend]

\* An add_record that leaves _record_count as it was.
added_uncounted(h, x) == appended(h, x)

\* add_record: the handle after the record is added, self._record_count += 1
added(h, x) == [appended(h, x) EXCEPT !.record_count = @ + 1]

\* Whether a handle has the file open for write.
open_for_write(h) == hs[h].file /\ hs[h].to_write

\* Checks that look at to_write before they look at _file.
not_open_for_write_mode_first(h) ==
    IF ~hs[h].to_write THEN "CaptureFileNotOpenForWrite"
    ELSE IF ~hs[h].file THEN "CaptureFileNotOpen"
    ELSE ""

\* The exception of a call on a handle that is not open, or not for write.
not_open_for_write(h) ==
    IF ~hs[h].file THEN "CaptureFileNotOpen"
    ELSE IF ~hs[h].to_write THEN "CaptureFileNotOpenForWrite"
    ELSE ""

\* add_record(record)
AddRecord(h, r) ==
    /\ hs[h].pc = "idle"
    /\ UNCHANGED <<oslocks, registry, history>>
    /\ IF not_open_for_write(h) /= ""
       THEN /\ ret' = OutcomeOf(h, "add_record", <<r>>, Raised(not_open_for_write(h)))
            /\ UNCHANGED <<disk, hs, view>>
       ELSE IF compression_block_exported(h)
       THEN \* _compression_block.write_sized raises
            /\ ret' = OutcomeOf(h, "add_record", <<r>>, Raised("BufferError"))
            /\ UNCHANGED <<disk, hs, view>>
       ELSE LET x0 == appender_of(h)
                x1 == add_data_block(x0, as_bytes_of(r))
                x2 == add_child_to_rightmost_node(
                          x1, coordinates_for_next_new_data_block(x0), 1)
            IN  /\ hs' = [hs EXCEPT ![h] = added(h, x2)]
                /\ disk' = [disk EXCEPT !.size = x2.size]
                /\ view' = [view EXCEPT ![h].recs = Append(@, r)]
                /\ ret' = OutcomeOf(h, "add_record", <<r>>,
                                    Number(hs[h].record_count + 1))

\* set_metadata(new_metadata)
SetMetadata(h, new_metadata) ==
    /\ hs[h].pc = "idle"
    /\ UNCHANGED <<oslocks, registry, history>>
    /\ IF not_open_for_write(h) /= ""
       THEN /\ ret' = OutcomeOf(h, "set_metadata", <<new_metadata>>,
                                Raised(not_open_for_write(h)))
            /\ UNCHANGED <<disk, hs, view>>
       ELSE IF new_metadata /= None /\ compression_block_exported(h)
       THEN \* self._metadata is assigned, then write_sized raises
            /\ hs' = [hs EXCEPT ![h].metadata = new_metadata]
            /\ ret' = OutcomeOf(h, "set_metadata", <<new_metadata>>,
                                Raised("BufferError"))
            /\ UNCHANGED <<disk, view>>
       ELSE LET x == with_metadata(appender_of(h), new_metadata)
            IN  /\ hs' = [hs EXCEPT ![h] =
                             [appended(h, x) EXCEPT !.metadata = new_metadata]]
                /\ disk' = [disk EXCEPT !.size = x.size]
                /\ view' = [view EXCEPT ![h].meta = new_metadata]
                /\ ret' = OutcomeOf(h, "set_metadata", <<new_metadata>>, NoValue)

\* get_metadata()
GetMetadata(h) ==
    /\ hs[h].pc = "idle"
    /\ UNCHANGED <<disk, oslocks, registry, history, view>>
    /\ IF ~hs[h].file
       THEN /\ ret' = Outcome(h, "get_metadata", Raised("CaptureFileNotOpen"))
            /\ UNCHANGED hs
       ELSE \E g \in {get_metadata(hs[h], disk)} :
                /\ hs' = [hs EXCEPT ![h].metadata = g.metadata, ![h].bcache = g.bcache]
                /\ ret' = Outcome(h, "get_metadata",
                                  IF g.ok THEN OptionalBytes(g.v) ELSE Raised(g.err))

\* record_at(record_number)
RecordAt(h, record_number) ==
    /\ hs[h].pc = "idle"
    /\ UNCHANGED <<disk, oslocks, registry, history, view>>
    /\ IF ~hs[h].file
       THEN /\ ret' = OutcomeOf(h, "record_at", <<record_number>>,
                                Raised("CaptureFileNotOpen"))
            /\ UNCHANGED hs
       ELSE \E g \in {record_at(hs[h], disk, record_number)} :
                /\ hs' = [hs EXCEPT ![h].bcache = g.bcache, ![h].ncache = g.ncache]
                /\ ret' = OutcomeOf(h, "record_at", <<record_number>>,
                                    IF g.ok THEN g.v ELSE Raised(g.err))

\* record_count()
RecordCount(h) ==
    /\ hs[h].pc = "idle"
    /\ ret' = Outcome(h, "record_count", Number(hs[h].record_count))
    /\ UNCHANGED <<disk, oslocks, registry, hs, history, view>>

\* The generator object record_generator returns.
GeneratorValue == [t |-> "generator", v |-> <<>>]

\* record_generator(starting_record_number)
RecordGenerator(h, starting_record_number) ==
    /\ hs[h].pc = "idle"
    /\ UNCHANGED <<disk, oslocks, registry, history, view>>
    /\ IF ~hs[h].file
       THEN /\ ret' = OutcomeOf(h, "record_generator", <<starting_record_number>>,
                                Raised("CaptureFileNotOpen"))
            /\ UNCHANGED hs
       ELSE IF starting_record_number < 1
       THEN /\ ret' = OutcomeOf(h, "record_generator", <<starting_record_number>>,
                                Raised("IndexError"))
            /\ UNCHANGED hs
       ELSE /\ hs' = [hs EXCEPT ![h].gen =
                         record_generator(hs[h], starting_record_number)]
            /\ ret' = OutcomeOf(h, "record_generator", <<starting_record_number>>,
                                GeneratorValue)

\* next() on the generator of a handle that is open.
GeneratorNext(h) ==
    /\ hs[h].pc = "idle"
    /\ hs[h].file
    /\ hs[h].gen.live
    /\ UNCHANGED <<disk, oslocks, registry, history, view>>
    /\ \E g \in {generator_next(hs[h], disk, hs[h].bcache, hs[h].ncache,
                                 hs[h].gen.path, hs[h].gen.frames)} :
          /\ hs' = [hs EXCEPT
                       ![h].bcache = g.bcache, ![h].ncache = g.ncache,
                       ![h].gen = IF g.kind = "yield"
                                  THEN [@ EXCEPT !.frames = g.frames, !.got = @ + 1]
                                  ELSE [@ EXCEPT !.live = FALSE, !.frames = <<>>]]
          /\ ret' = Outcome(h, "next",
                            IF g.kind = "yield" THEN g.v ELSE Raised(g.err))

-----------------------------------------------------------------------------
(* commit: the flush, the serial number, the lock, and the master node      *)
(* written in two writes of the buffered file, the crc and then the rest.  *)

\* A faulty commit that asks for the lock without the flush before it.
commit_without_flush(h) ==
    /\ hs[h].pc = "idle"
    /\ UNCHANGED <<disk, oslocks, registry, history, view>>
    /\ IF not_open_for_write(h) /= ""
       THEN /\ ret' = Outcome(h, "commit", Raised(not_open_for_write(h)))
            /\ UNCHANGED hs
       ELSE /\ hs' = [hs EXCEPT ![h].master = increment_serial_number(@),
                                ![h].pc = "cwait", ![h].call = "commit"]
            /\ ret' = Outcome(h, "commit", Pending)

\* commit(), up to _acquire_master_nodes_lock
Commit(h) ==
    /\ hs[h].pc = "idle"
    /\ UNCHANGED <<oslocks, registry, history, view>>
    /\ IF not_open_for_write(h) /= ""
       THEN /\ ret' = Outcome(h, "commit", Raised(not_open_for_write(h)))
            /\ UNCHANGED <<disk, hs>>
       ELSE /\ disk' = flushed(disk, hs[h].pend)
            /\ hs' = [hs EXCEPT ![h].pend = <<>>,
                                ![h].master = increment_serial_number(@),
                                ![h].pc = "cwait", ![h].call = "commit"]
            /\ ret' = Outcome(h, "commit", Pending)

\* commit: _acquire_master_nodes_lock_internal(True) returns.
CommitLock(h) ==
    /\ hs[h].pc = "cwait"
    /\ master_lock_granted(h)
    /\ oslocks' = [oslocks EXCEPT !.master = master_locked(@, h)]
    /\ hs' = [hs EXCEPT ![h].pc = "cwrite"]
    /\ UNCHANGED <<disk, registry, history, view, ret>>

\* msvcrt.locking(LK_LOCK) gives up: commit raises OSError.
CommitTimeout(h) ==
    /\ hs[h].pc = "cwait"
    /\ oslocks.platform = "windows"
    /\ ~master_lock_granted(h)
    /\ hs' = [hs EXCEPT ![h].pc = "idle", ![h].call = ""]
    /\ ret' = Outcome(h, "commit", Raised("OSError"))
    /\ UNCHANGED <<disk, oslocks, registry, history, view>>

\* _write_master_node: the crc reaches the file when the buffer is written
\* after it.
CommitWrite(h) ==
    LET m == master_to_write(hs[h].master, hs[h].cblock)
        slot == slot_of(m)
    IN  /\ hs[h].pc = "cwrite"
        /\ hs' = [hs EXCEPT ![h].master = m, ![h].pc = "cflush"]
        /\ disk' = [disk EXCEPT !.slots[slot] = torn(@, slot_image(m), 1)]
        /\ history' = [history EXCEPT !.slots[slot] = view[h]]
        /\ UNCHANGED <<oslocks, registry, view, ret>>

\* The rest of the master node reaches the file, and the lock is released.
CommitFlush(h) ==
    LET m == hs[h].master
    IN  /\ hs[h].pc = "cflush"
        /\ hs' = [hs EXCEPT ![h].pc = "idle", ![h].call = ""]
        /\ disk' = [disk EXCEPT !.slots[slot_of(m)] = slot_image(m)]
        /\ oslocks' = [oslocks EXCEPT !.master = master_unlocked(@, h)]
        /\ history' = [history EXCEPT !.log = Append(@, view[h])]
        /\ ret' = Outcome(h, "commit", NoValue)
        /\ UNCHANGED <<registry, view>>

-----------------------------------------------------------------------------
(* What the environment does to the file: a process killed, a slot damaged. *)

HandlesOf(p) == {h \in Handles : ProcOf[h] = p}

\* The handle of a process that has the file open for write, 0 when none has.
writer_of(p) ==
    IF \E h \in HandlesOf(p) : hs[h].file /\ hs[h].to_write
    THEN CHOOSE h \in HandlesOf(p) : hs[h].file /\ hs[h].to_write
    ELSE 0

\* Whether a lock's owner is the process p or one of its descriptors.
owned_by(o, p) == IF o[1] = "process" THEN o[2] = p ELSE ProcOf[o[2]] = p

\* The process p is killed: of its writer's buffered writes the first j reach
\* the file, and of a master node being written the first k units; its locks
\* are released and its objects are gone.
Crash(p, j, k) ==
    LET w == writer_of(p)
        writing == w /= 0 /\ hs[w].pc = "cflush"
        slot == slot_of(hs[w].master)
        image == torn(disk.slots[slot], slot_image(hs[w].master), k)
        d1 == IF w = 0 THEN disk ELSE flushed(disk, SubSeq(hs[w].pend, 1, j))
    IN  /\ \E h \in HandlesOf(p) : hs[h].file
        /\ j \in 0..(IF w = 0 THEN 0 ELSE Len(hs[w].pend))
        /\ k \in 1..(IF writing THEN image_units ELSE 1)
        /\ disk' = IF writing THEN [d1 EXCEPT !.slots[slot] = image] ELSE d1
        /\ history' = [history EXCEPT
                         !.log = IF writing /\ image = slot_image(hs[w].master)
                                 THEN Append(@, view[w]) ELSE @,
                         !.crashes = @ + 1]
        /\ oslocks' = [oslocks EXCEPT
                         !.writer = {o \in @ : ~owned_by(o, p)},
                         !.master = {l \in @ : ~owned_by(l[1], p)}]
        /\ registry' = [registry EXCEPT ![p] = {}]
        /\ hs' = [h \in Handles |->
                    IF ProcOf[h] = p THEN Reconstructed(h) ELSE hs[h]]
        /\ view' = [h \in Handles |->
                    IF ProcOf[h] = p THEN Content(<<>>, None) ELSE view[h]]
        /\ ret' = Outcome(0, "killed", NoValue)

\* One unit of the body of a master slot is altered while no handle has the
\* file open for write and the other slot is sound.
Corrupt(slot, unit) ==
    /\ \A h \in Handles : ~(hs[h].file /\ hs[h].to_write)
    /\ crc_ok(disk.slots[1]) /\ crc_ok(disk.slots[2])
    /\ disk' = [disk EXCEPT !.slots[slot].buffer[unit] = <<"altered", @>>]
    /\ history' = [history EXCEPT !.corruptions = @ + 1]
    /\ ret' = Outcome(0, "altered", NoValue)
    /\ UNCHANGED <<oslocks, registry, hs, view>>

-----------------------------------------------------------------------------
(* The initial states: the file as _new_file leaves it, no handle open.     *)

InitWith(platform, initial_metadata, encodings) ==
    /\ disk = new_file(initial_metadata)
    /\ oslocks = [platform |-> platform, writer |-> {}, master |-> {}]
    /\ registry = [p \in Procs |-> {}]
    /\ hs = [h \in Handles |-> FreshHandle(encodings[h])]
    /\ history = [slots |-> [i \in {1, 2} |-> Content(<<>>, initial_metadata)],
                  log |-> <<Content(<<>>, initial_metadata)>>,
                  crashes |-> 0, corruptions |-> 0]
    /\ view = [h \in Handles |-> Content(<<>>, None)]
    /\ ret = Outcome(0, "new_file", NoValue)

Encodings == {"none", "utf_8"}

Init ==
    \E platform \in {"posix", "windows"}, initial_metadata \in Metadata,
       encodings \in [Handles -> Encodings] :
        InitWith(platform, initial_metadata, encodings)

\* An existing file without records or metadata, handles that return bytes,
\* under POSIX locks.
InitEmpty == InitWith("posix", None, [h \in Handles |-> "none"])

\* The same file under either kind of lock.
InitEitherPlatform ==
    \E platform \in {"posix", "windows"} :
        InitWith(platform, None, [h \in Handles |-> "none"])

\* A file that was created with initial metadata.
InitWithMetadata == InitWith("posix", Some(<<7>>), [h \in Handles |-> "none"])

\* What a file can hold where the header is read from: nothing, the 11 bytes
\* of a magic and no more, all but the last byte of the header, or all of it;
\* a magic that is one of the two known or another; a version up to one
\* above the current one.  Bytes the file does not hold have no value.
Headers ==
    {hd \in [length : {0, MagicSize, HeaderSize - 1, HeaderSize},
             capture_file_type : {"MioCapture", "WebCapture", "NotCapture"},
             version : 0..(CurrentVersion + 1)] :
        /\ (hd.length < MagicSize) => (hd.capture_file_type = "NotCapture")
        /\ (hd.length < MagicSize + 4) => (hd.version = 0)}

\* A file that is otherwise as _new_file leaves it, with any of the headers.
InitHeaders ==
    \E hd \in Headers :
        /\ disk = [new_file(None) EXCEPT !.header = hd]
        /\ oslocks = [platform |-> "posix", writer |-> {}, master |-> {}]
        /\ registry = [p \in Procs |-> {}]
        /\ hs = [h \in Handles |-> FreshHandle("none")]
        /\ history = [slots |-> [i \in {1, 2} |-> Content(<<>>, None)],
                      log |-> <<Content(<<>>, None)>>,
                      crashes |-> 0, corruptions |-> 0]
        /\ view = [h \in Handles |-> Content(<<>>, None)]
        /\ ret = Outcome(0, "new_file", NoValue)

\* No file yet, and no CaptureFile object constructed.
InitNoFile ==
    /\ disk = NoFile
    /\ oslocks = [platform |-> "posix", writer |-> {}, master |-> {}]
    /\ registry = [p \in Procs |-> {}]
    /\ hs = [h \in Handles |-> FreshHandle("none")]
    /\ history = [slots |-> [i \in {1, 2} |-> Content(<<>>, None)],
                  log |-> <<Content(<<>>, None)>>,
                  crashes |-> 0, corruptions |-> 0]
    /\ view = [h \in Handles |-> Content(<<>>, None)]
    /\ ret = Outcome(0, "no_file", NoValue)

-----------------------------------------------------------------------------
(* Specifications. *)

\* Whether the handle's state is that of a completed commit: it has nothing
\* uncommitted.
Committed(h) == \E i \in 1..Len(history.log) : history.log[i] = view[h]

\* The writer's calls are bounded: records per file, commits per run.
MayAdd(h) == hs[h].file /\ hs[h].to_write /\ Len(view[h].recs) < MaxRecords

\* set_metadata is called while the data written stays within MaxData.
MaySetMetadata(h) ==
    /\ hs[h].file /\ hs[h].to_write
    /\ hs[h].master.file_limit + Len(hs[h].cblock) < initial_file_limit + MaxData

MayCommit(h) == hs[h].file /\ hs[h].to_write /\ Len(history.log) <= MaxCommits

\* Every call of every handle, and the environment.
Next ==
    \/ \E h \in Handles, to_write \in BOOLEAN : ~hs[h].file /\ Open(h, to_write)
    \/ \E h \in Handles : Close(h)
    \/ \E h \in Handles : Discard(h)
    \/ \E h \in Handles : Refresh(h)
    \/ \E h \in Handles : RefreshLock(h)
    \/ \E h \in Handles : RefreshRead(h)
    \/ \E h \in Handles : RefreshTimeout(h)
    \/ \E h \in Handles, r \in Records :
          (MayAdd(h) \/ ~open_for_write(h)) /\ AddRecord(h, r)
    \/ \E h \in Handles, m \in Metadata :
          (MaySetMetadata(h) \/ ~open_for_write(h)) /\ SetMetadata(h, m)
    \/ \E h \in Handles : GetMetadata(h)
    \/ \E h \in Handles, n \in 0..(MaxRecords + 1) : RecordAt(h, n)
    \/ \E h \in Handles : RecordCount(h)
    \/ \E h \in Handles, n \in 0..(MaxRecords + 1) : RecordGenerator(h, n)
    \/ \E h \in Handles : GeneratorNext(h)
    \/ \E h \in Handles : (MayCommit(h) \/ ~open_for_write(h)) /\ Commit(h)
    \/ \E h \in Handles : CommitLock(h)
    \/ \E h \in Handles : CommitTimeout(h)
    \/ \E h \in Handles : CommitWrite(h)
    \/ \E h \in Handles : CommitFlush(h)
    \/ \E p \in Procs, j \in 0..(2 * compression_block_size), k \in 1..image_units :
          history.crashes < MaxCrashes /\ Crash(p, j, k)
    \/ \E slot \in {1, 2}, unit \in 1..(image_units - 1) :
          history.corruptions < MaxCrashes /\ Corrupt(slot, unit)

Spec == Init /\ [][Next]_vars

\* A writer (handle 1) that adds records and commits, closes, and reopens
\* for read or for write, as the same object or as a new one; records are
\* read while the handle has nothing uncommitted.
InitRoundTrip ==
    \E e \in Encodings : InitWith("posix", None, [h \in Handles |-> e])

NextRoundTrip ==
    \/ \E to_write \in BOOLEAN : ~hs[1].file /\ Open(1, to_write)
    \/ RefreshLock(1)
    \/ RefreshRead(1)
    \/ hs[1].file /\ Close(1)
    \/ Discard(1)
    \/ \E r \in Records : MayAdd(1) /\ Len(view[1].recs) < MaxTyped /\ AddRecord(1, r)
    \/ MayCommit(1) /\ ~Committed(1) /\ Commit(1)
    \/ CommitLock(1)
    \/ CommitWrite(1)
    \/ CommitFlush(1)
    \/ \E n \in 1..MaxTyped :
          hs[1].file /\ Committed(1) /\ n <= hs[1].record_count /\ RecordAt(1, n)

SpecRoundTrip == InitRoundTrip /\ [][NextRoundTrip]_vars

-----------------------------------------------------------------------------
(* C1: the round trip of records. *)

\* The records of the most recent completed commit.
committed_records == history.log[Len(history.log)].recs

\* C1, as stated: after the writer's add_record and commit calls, a close and
\* a reopen, record_at(i) returns exactly the bytes passed to the i-th
\* add_record, for every i up to the number of committed records.
RoundTripReturnsBytes ==
    ret.op = "record_at" =>
        /\ hs[ret.h].record_count = Len(committed_records)
        /\ ret.value = Bytes(as_bytes_of(committed_records[ret.arg[1]]))

\* C1, amended: record_at(i) returns the bytes passed to the i-th add_record
\* (the UTF-8 encoding of a str passed) when the handle has no encoding; with
\* an encoding it returns the str decoded from those bytes, and raises
\* UnicodeDecodeError when they are not valid in the encoding.
RoundTripReturnsDecoded ==
    ret.op = "record_at" =>
        /\ hs[ret.h].record_count = Len(committed_records)
        /\ ret.value = decoded(as_bytes_of(committed_records[ret.arg[1]]),
                               hs[ret.h].encoding)

\* The first of three committed records, read below a full node from a block
\* in the file by a handle reopened for read, comes back as bytes.
RoundTripWitness ==
    /\ ret.op = "record_at" /\ ret.arg = <<1>>
    /\ Len(committed_records) = 3
    /\ hs[1].file /\ ~hs[1].to_write
    /\ ret.value = Bytes(as_bytes_of(committed_records[1]))

-----------------------------------------------------------------------------
(* C2: a crash between two commits. *)

\* A writer (handle 1) that adds records, sets metadata and commits, and is
\* killed at any point; the file is then reopened by new objects, in the same
\* process or in another one.  Nothing is written after the last crash.
NextCrash ==
    \/ \E h \in {1, 3} : ~hs[1].file /\ ~hs[3].file /\ Open(h, h = 1)
    \/ \E h \in {1, 3} : RefreshLock(h)
    \/ \E h \in {1, 3} : RefreshRead(h)
    \/ hs[3].file /\ Close(3)
    \/ \E r \in {Bytes(<<97>>), Str(<<233>>)} :
          /\ history.crashes < MaxCrashes
          /\ MayAdd(1) /\ Len(view[1].recs) < MaxTyped
          /\ AddRecord(1, r)
    \/ \E m \in Metadata :
          /\ history.crashes < MaxCrashes
          /\ MaySetMetadata(1)
          /\ view[1].meta /= m
          /\ SetMetadata(1, m)
    \/ MayCommit(1) /\ ~Committed(1) /\ Commit(1)
    \/ CommitLock(1)
    \/ CommitWrite(1)
    \/ CommitFlush(1)
    \/ \E j \in 0..(2 * compression_block_size), k \in 1..image_units :
          history.crashes < MaxCrashes /\ Crash(1, j, k)

SpecCrash == InitWithMetadata /\ [][NextCrash]_vars

\* The most recent completed commit.
last_commit == history.log[Len(history.log)]

\* What a handle gives for the records 1..count, and for the metadata.
records_read(h, count) ==
    [n \in 1..count |-> record_at(hs[h], disk, n).v]

\* C2: when the writer is killed after commit N-1 completed and before
\* commit N completes, whether during the data-page writes or part-way through
\* the master node, an open of the file yields the record count, the records
\* and the metadata of commit N-1.
CrashYieldsLastCommit ==
    (history.crashes > 0 /\ ret.op = "open" /\ ret.value = NoValue) =>
        /\ hs[ret.h].record_count = Len(last_commit.recs)
        /\ records_read(ret.h, hs[ret.h].record_count)
               = [n \in 1..Len(last_commit.recs) |->
                     Bytes(as_bytes_of(last_commit.recs[n]))]
        /\ get_metadata(hs[ret.h], disk).v = last_commit.meta

\* The writer was killed part-way through the master node of a commit that
\* added a record to the committed ones and changed the metadata, and the
\* file was opened afterwards.
CrashWitness ==
    /\ history.crashes > 0 /\ ret.op = "open" /\ ret.value = NoValue
    /\ Len(last_commit.recs) >= 1
    /\ \E slot \in {1, 2} :
          /\ ~crc_ok(disk.slots[slot])
          /\ Len(history.slots[slot].recs) > Len(last_commit.recs)
          /\ history.slots[slot].meta /= last_commit.meta

-----------------------------------------------------------------------------
(* C3: metadata and records are committed together. *)

\* One CaptureFile object (handle 1) that sets metadata, adds records and
\* commits or not, is closed and opened again, and is asked for its metadata
\* and its records; set_metadata is the first call of a transaction.
NextMetadata ==
    \/ \E to_write \in BOOLEAN : ~hs[1].file /\ Open(1, to_write)
    \/ RefreshLock(1)
    \/ RefreshRead(1)
    \/ hs[1].file /\ Close(1)
    \/ MayAdd(1) /\ Len(view[1].recs) < MaxFew /\ AddRecord(1, Bytes(<<97>>))
    \/ \E m \in Metadata :
          MaySetMetadata(1) /\ Committed(1) /\ view[1].meta /= m /\ SetMetadata(1, m)
    \/ MayCommit(1) /\ Len(history.log) <= MaxFew /\ ~Committed(1) /\ Commit(1)
    \/ CommitLock(1)
    \/ CommitWrite(1)
    \/ CommitFlush(1)
    \/ hs[1].file /\ GetMetadata(1)
    \/ \E n \in 1..MaxFew :
          hs[1].file /\ Committed(1) /\ n <= hs[1].record_count /\ RecordAt(1, n)

SpecMetadata == InitWithMetadata /\ [][NextMetadata]_vars

\* C3: after set_metadata(x), add_record(r), commit, close and reopen,
\* get_metadata() returns x and r is the last record; when the commit is left
\* out, get_metadata() and the records after the reopen are those of the
\* previous commit.  A handle that has just been opened has nothing
\* uncommitted: what it returns is the most recent completed commit.
MetadataTransactional ==
    /\ (ret.op = "get_metadata" /\ Committed(ret.h)) =>
           ret.value = OptionalBytes(last_commit.meta)
    /\ (ret.op = "record_at" /\ Committed(ret.h)) =>
           /\ hs[ret.h].record_count = Len(last_commit.recs)
           /\ ret.value = Bytes(as_bytes_of(last_commit.recs[ret.arg[1]]))

-----------------------------------------------------------------------------
(* C4: what other handles see of the writer's work. *)

\* A writer (handle 1) that sets metadata, adds records, commits and closes
\* with or without a commit, and a reader in another process (handle 3) that
\* opens, refreshes and asks for its record count and metadata.
NextVisibility ==
    \/ ~hs[1].file /\ Open(1, TRUE)
    \/ ~hs[3].file /\ Open(3, FALSE)
    \/ hs[3].file /\ Refresh(3)
    \/ \E h \in {1, 3} : RefreshLock(h)
    \/ \E h \in {1, 3} : RefreshRead(h)
    \/ \E h \in {1, 3} : hs[h].file /\ Close(h)
    \/ MayAdd(1) /\ Len(view[1].recs) < MaxFew /\ AddRecord(1, Bytes(<<97>>))
    \/ \E m \in Metadata \ {Some(<<7>>)} :
          MaySetMetadata(1) /\ Committed(1) /\ view[1].meta /= m /\ SetMetadata(1, m)
    \/ MayCommit(1) /\ Len(history.log) <= MaxFew /\ ~Committed(1) /\ Commit(1)
    \/ CommitLock(1)
    \/ CommitWrite(1)
    \/ CommitFlush(1)
    \/ hs[3].file /\ GetMetadata(3)

SpecVisibility == InitWithMetadata /\ [][NextVisibility]_vars

\* C4: the record count and the metadata another handle has after an open or
\* a refresh are those of one completed commit of the writer: nothing the
\* writer has not committed is visible to it, and nothing of it is left once
\* the writer has closed without committing.
SeesOneCommit ==
    (ret.op = "get_metadata" /\ ret.h = 3) =>
        \E i \in 1..Len(history.log) :
            /\ hs[3].record_count = Len(history.log[i].recs)
            /\ ret.value = OptionalBytes(history.log[i].meta)

-----------------------------------------------------------------------------
(* C5: two opens for write. *)

\* Three CaptureFile objects, two of them in one process, that open the
\* existing file for write and close it, under either kind of lock.
NextExclusion ==
    \/ \E h \in Handles : ~hs[h].file /\ Open(h, TRUE)
    \/ \E h \in Handles : RefreshLock(h)
    \/ \E h \in Handles : RefreshRead(h)
    \/ \E h \in Handles : hs[h].file /\ Close(h)

SpecExclusion == InitEitherPlatform /\ [][NextExclusion]_vars

\* C5: of two opens for write of the existing file, from one process or from
\* two, the one made while no handle has the file open for write succeeds and
\* the one made while another has raises CaptureFileAlreadyOpen; at no time
\* do two handles have the file open for write.
WriterExclusion ==
    /\ Cardinality({h \in Handles : open_for_write(h)}) <= 1
    /\ (ret.op = "open" /\ ret.arg = <<TRUE>>) =>
           IF \E g \in Handles \ {ret.h} : open_for_write(g)
           THEN ret.value = Raised("CaptureFileAlreadyOpen") /\ ~hs[ret.h].file
           ELSE ret.value = Pending /\ open_for_write(ret.h)

\* Both refusals have happened: from the writer's own process, and from the
\* other one.
ExclusionWitness ==
    /\ ret.op = "open" /\ ret.arg = <<TRUE>> /\ ret.h = 3
    /\ ret.value = Raised("CaptureFileAlreadyOpen")
    /\ open_for_write(1) /\ hs[1].pc = "idle"
    /\ hs[3].to_write /\ ~hs[3].file

-----------------------------------------------------------------------------
(* C6: the writer's exclusion while readers come and go. *)

\* A writer (handle 1), a reader in its process (handle 2), and a handle in
\* another process (handle 3) that opens for read or for write; all of them
\* open and close in any order, under either kind of lock.
NextHold ==
    \/ ~hs[1].file /\ Open(1, TRUE)
    \/ ~hs[2].file /\ Open(2, FALSE)
    \/ \E to_write \in BOOLEAN : ~hs[3].file /\ Open(3, to_write)
    \/ \E h \in Handles : RefreshLock(h)
    \/ \E h \in Handles : RefreshRead(h)
    \/ \E h \in Handles : RefreshTimeout(h)
    \/ \E h \in Handles : hs[h].file /\ Close(h)

SpecHold == InitEitherPlatform /\ [][NextHold]_vars

\* C6: from its open for write until its own close a handle keeps every other
\* open for write failing with CaptureFileAlreadyOpen, whatever readers in
\* its process or in another are opened and closed meanwhile; once it has
\* closed, the next open for write succeeds.
ExclusionHeldUntilClose ==
    (ret.op = "open" /\ ret.arg = <<TRUE>>) =>
        (ret.value = Raised("CaptureFileAlreadyOpen"))
            = (\E g \in Handles \ {ret.h} : open_for_write(g))

-----------------------------------------------------------------------------
(* C7: readers of a file that is open for write. *)

\* A writer (handle 1) that stays open, adds records and commits; a reader
\* in its process (handle 2) and one in another process (handle 3) open
\* while the writer is open, refresh and close, under either kind of lock.
NextReaders ==
    \/ ~hs[1].file /\ Open(1, TRUE)
    \/ \E h \in {2, 3} : hs[1].file /\ ~hs[h].file /\ Open(h, FALSE)
    \/ \E h \in {2, 3} : hs[h].file /\ Refresh(h)
    \/ \E h \in Handles : RefreshLock(h)
    \/ \E h \in Handles : RefreshRead(h)
    \/ \E h \in Handles : RefreshTimeout(h)
    \/ \E h \in {2, 3} : hs[h].file /\ Close(h)
    \/ MayAdd(1) /\ Len(view[1].recs) < MaxFew /\ AddRecord(1, Bytes(<<97>>))
    \/ MayCommit(1) /\ Len(history.log) <= MaxFew /\ ~Committed(1) /\ Commit(1)
    \/ CommitLock(1)
    \/ CommitTimeout(1)
    \/ CommitWrite(1)
    \/ CommitFlush(1)

SpecReaders == InitEitherPlatform /\ [][NextReaders]_vars

\* C7: an open for read made while another handle has the file open for
\* write never raises CaptureFileAlreadyOpen, and every open or refresh of a
\* reader that has read the master nodes returns, with the reader's record
\* count equal to the record count of the writer's most recent completed
\* commit.  (A refresh that gave up waiting for the lock has read nothing.)
ReadersSeeLastCommit ==
    /\ (ret.op = "open" /\ ret.arg = <<FALSE>>) =>
           ret.value /= Raised("CaptureFileAlreadyOpen")
    /\ (ret.h \in {2, 3} /\ ret.op \in {"open", "refresh"}
            /\ ret.value \notin {Pending, Raised("OSError")}) =>
           /\ ret.value = NoValue
           /\ hs[ret.h].record_count = Len(last_commit.recs)

-----------------------------------------------------------------------------
(* C8: one damaged master node. *)

\* A writer (handle 1) adds records, commits and closes; one unit of the
\* body of one master node is then altered in the file, and nothing is
\* written afterwards; the writer's object and a reader in another process
\* (handle 3) open, refresh and close before and after the damage.
NextRecovery ==
    \/ ~hs[1].file /\ Open(1, TRUE)
    \/ ~hs[3].file /\ Open(3, FALSE)
    \/ \E h \in {1, 3} :
          hs[h].file /\ (h = 3 \/ history.corruptions > 0) /\ Refresh(h)
    \/ \E h \in {1, 3} : RefreshLock(h)
    \/ \E h \in {1, 3} : RefreshRead(h)
    \/ \E h \in {1, 3} : hs[h].file /\ Close(h)
    \/ /\ history.corruptions = 0
       /\ MayAdd(1) /\ Len(view[1].recs) < MaxFew
       /\ AddRecord(1, Bytes(<<97>>))
    \/ /\ history.corruptions = 0
       /\ MayCommit(1) /\ Len(history.log) <= MaxFew /\ ~Committed(1)
       /\ Commit(1)
    \/ CommitLock(1)
    \/ CommitWrite(1)
    \/ CommitFlush(1)
    \/ \E slot \in {1, 2}, unit \in 1..(image_units - 1) :
          history.corruptions < MaxCrashes /\ Corrupt(slot, unit)

SpecRecovery == InitEmpty /\ [][NextRecovery]_vars

\* C8: when one master node fails its crc check and the other passes, an
\* open or a refresh that ends has returned, and the handle has the master
\* node, the record count and the records of the commit held in the other
\* slot, whichever slot is the damaged one.
OtherSlotIsCurrent ==
    \A damaged \in {1, 2} :
        (/\ ~crc_ok(disk.slots[damaged]) /\ crc_ok(disk.slots[3 - damaged])
         /\ ret.op \in {"open", "refresh"} /\ ret.value /= Pending) =>
            /\ ret.value = NoValue
            /\ hs[ret.h].file
            /\ hs[ret.h].master = new_from(disk.slots[3 - damaged].buffer)
            /\ hs[ret.h].record_count = Len(history.slots[3 - damaged].recs)
            /\ records_read(ret.h, hs[ret.h].record_count)
                   = [n \in 1..Len(history.slots[3 - damaged].recs) |->
                         Bytes(as_bytes_of(history.slots[3 - damaged].recs[n]))]

\* The master node of the latest commit, which has two records, is the
\* damaged one, and the refresh of a reader that had those two records has
\* returned with the one record of the commit before.
RecoveryWitness ==
    /\ history.corruptions = 1
    /\ \E damaged \in {1, 2} :
          /\ ~crc_ok(disk.slots[damaged]) /\ crc_ok(disk.slots[3 - damaged])
          /\ history.slots[damaged] = last_commit
          /\ Len(last_commit.recs) = 2
          /\ Len(history.slots[3 - damaged].recs) = 1
    /\ ret.h = 3 /\ ret.op = "refresh" /\ ret.value = NoValue
    /\ hs[3].record_count = 1

-----------------------------------------------------------------------------
(* C9: the numbers add_record returns. *)

\* One handle, opened for write once: records are added, metadata is set,
\* commits are made and records, metadata and the count are read in any
\* order.
NextAppend ==
    \/ ~hs[1].file /\ Open(1, TRUE)
    \/ RefreshLock(1)
    \/ RefreshRead(1)
    \/ \E r \in {Bytes(<<97>>), Str(<<233>>)} :
          MayAdd(1) /\ Len(view[1].recs) < MaxTyped /\ AddRecord(1, r)
    \/ \E m \in Metadata \ {None} :
          MaySetMetadata(1) /\ view[1].meta /= m /\ SetMetadata(1, m)
    \/ MayCommit(1) /\ Len(history.log) <= MaxFew /\ ~Committed(1) /\ Commit(1)
    \/ CommitLock(1)
    \/ CommitWrite(1)
    \/ CommitFlush(1)
    \/ hs[1].file /\ GetMetadata(1)
    \/ hs[1].file /\ RecordCount(1)
    \/ \E n \in 1..MaxTyped :
          hs[1].file /\ n <= hs[1].record_count /\ RecordAt(1, n)

SpecAppend == InitEmpty /\ [][NextAppend]_vars

-----------------------------------------------------------------------------
(* C10: the record count and the rightmost path. *)

\* One handle that opens the new, empty file for write, adds records,
\* commits at any point, closes with nothing uncommitted and opens again, for
\* read or for write.
NextCount ==
    \/ \E to_write \in BOOLEAN :
          ~hs[1].file /\ (to_write \/ Len(history.log) > 1) /\ Open(1, to_write)
    \/ RefreshLock(1)
    \/ RefreshRead(1)
    \/ hs[1].file /\ hs[1].pc = "idle" /\ Committed(1) /\ Close(1)
    \/ MayAdd(1) /\ AddRecord(1, Bytes(<<97>>))
    \/ MayCommit(1) /\ ~Committed(1) /\ Commit(1)
    \/ CommitLock(1)
    \/ CommitWrite(1)
    \/ CommitFlush(1)
    \/ hs[1].file /\ RecordCount(1)

SpecCount == InitEmpty /\ [][NextCount]_vars

\* The number of children of a level of a rightmost path (leaf = 0).
child_count(path, height) ==
    IF height < Len(path) THEN Len(path[height + 1]) ELSE 0

\* C10: on a handle that has the file open, after K add_record calls since
\* the file was created empty, with commits anywhere between them and with
\* closes and reopens after commits, the record count is K and is the sum
\* over the levels of the rightmost path of the master node of
\* child_count(level) * fan_out^level; record_count() returns it.
RecordCountIdentity ==
    (hs[1].file /\ hs[1].pc \notin {"rwait", "rread"}) =>
        LET path == hs[1].master.rightmost_path
        IN  /\ Len(path) <= 4
            /\ hs[1].record_count = Len(view[1].recs)
            /\ hs[1].record_count =
                   child_count(path, 0)
                     + child_count(path, 1) * FanOut
                     + child_count(path, 2) * FanOut * FanOut
                     + child_count(path, 3) * FanOut * FanOut * FanOut
            /\ ret.op = "record_count" => ret.value = Number(Len(view[1].recs))

\* Five records were added with three commits between them, the file was
\* closed and opened again for read, and record_count() was called: the
\* rightmost path has three levels.
CountWitness ==
    /\ ret.op = "record_count" /\ ret.value = Number(MaxRecords)
    /\ hs[1].file /\ ~hs[1].to_write
    /\ Len(history.log) = 4
    /\ Len(last_commit.recs) = MaxRecords
    /\ Len(hs[1].master.rightmost_path) >= 3

-----------------------------------------------------------------------------
(* C11: what a generator yields. *)

\* The n-th record added to the file: its number as one byte.
NumberedRecord(n) == Bytes(<<96 + n>>)

\* One handle that opens the file for write, adds numbered records, commits,
\* closes and opens again for read or for write; generators are made from
\* every record number in range and run to their end, one at a time, while
\* nothing else is called on the handle.
NextGenerator ==
    \/ \E to_write \in BOOLEAN :
          ~hs[1].file /\ (to_write \/ Len(history.log) > 1) /\ Open(1, to_write)
    \/ RefreshLock(1)
    \/ RefreshRead(1)
    \/ hs[1].file /\ hs[1].pc = "idle" /\ Committed(1) /\ ~hs[1].gen.live /\ Close(1)
    \/ /\ MayAdd(1) /\ ~hs[1].gen.live
       /\ AddRecord(1, NumberedRecord(Len(view[1].recs) + 1))
    \/ MayCommit(1) /\ ~Committed(1) /\ ~hs[1].gen.live /\ Commit(1)
    \/ CommitLock(1)
    \/ CommitWrite(1)
    \/ CommitFlush(1)
    \/ \E start \in 1..MaxRecords :
          /\ hs[1].file /\ ~hs[1].gen.live
          /\ start <= hs[1].record_count
          /\ RecordGenerator(1, start)
    \/ GeneratorNext(1)

SpecGenerator == InitEmpty /\ [][NextGenerator]_vars

\* C11: every next() on a generator made by record_generator(start), with
\* 1 <= start <= K and K the record count at that call, either yields the
\* record record_at gives for the next number from start on, up to K, or,
\* after exactly K - start + 1 items, raises StopIteration.
GeneratorYieldsStartToCount ==
    (ret.op = "next") =>
        LET g == hs[ret.h].gen
        IN  IF ret.value = Raised("StopIteration")
            THEN g.got = g.count - g.start + 1
            ELSE /\ g.got \in 1..(g.count - g.start + 1)
                 /\ record_at(hs[ret.h], disk, g.start + g.got - 1).ok
                 /\ ret.value = record_at(hs[ret.h], disk, g.start + g.got - 1).v
                 /\ ret.value = Bytes(as_bytes_of(view[ret.h].recs[g.start + g.got - 1]))

\* A generator made from record 2 of five, on a handle reopened for read,
\* has yielded its four records and has stopped; the records stand under
\* three levels of the tree.
GeneratorWitness ==
    /\ ret.op = "next" /\ ret.value = Raised("StopIteration")
    /\ hs[1].file /\ ~hs[1].to_write
    /\ hs[1].gen.start = 2 /\ hs[1].gen.count = MaxRecords /\ hs[1].gen.got = 4
    /\ Len(hs[1].master.rightmost_path) >= 3

-----------------------------------------------------------------------------
(* C12: a generator consumed while records are added. *)

\* One handle open for write: numbered records are added and commits are
\* made at any point, also between the items of a generator.
NextInterleaved ==
    \/ ~hs[1].file /\ Open(1, TRUE)
    \/ RefreshLock(1)
    \/ RefreshRead(1)
    \/ MayAdd(1) /\ AddRecord(1, NumberedRecord(Len(view[1].recs) + 1))
    \/ MayCommit(1) /\ ~Committed(1) /\ Commit(1)
    \/ CommitLock(1)
    \/ CommitWrite(1)
    \/ CommitFlush(1)
    \/ \E start \in 1..MaxRecords :
          /\ hs[1].file /\ ~hs[1].gen.live
          /\ start <= hs[1].record_count
          /\ RecordGenerator(1, start)
    \/ GeneratorNext(1)

SpecInterleaved == InitEmpty /\ [][NextInterleaved]_vars

\* C12: add_record and commit can be called between the items of a
\* generator made when the file had K records, and the generator yields the
\* records start..K as they were added, and no record added later.
GeneratorUndisturbed ==
    /\ (ret.op = "next") =>
           LET g == hs[ret.h].gen
           IN  IF ret.value = Raised("StopIteration")
               THEN g.got = g.count - g.start + 1
               ELSE /\ g.got \in 1..(g.count - g.start + 1)
                    /\ ret.value =
                           Bytes(as_bytes_of(view[ret.h].recs[g.start + g.got - 1]))
    /\ (ret.op \in {"add_record", "commit"}) =>
           ret.value \in {Number(hs[ret.h].record_count), NoValue, Pending}

-----------------------------------------------------------------------------
(* C13: the write handle sees its own uncommitted changes. *)

\* One handle open for write on a file created with metadata: numbered
\* records are added, metadata is set or cleared, commits are made or not,
\* and the count, the records and the metadata are asked for at any point.
NextUncommitted ==
    \/ ~hs[1].file /\ Open(1, TRUE)
    \/ RefreshLock(1)
    \/ RefreshRead(1)
    \/ /\ MayAdd(1) /\ Len(view[1].recs) < MaxTyped
       /\ AddRecord(1, NumberedRecord(Len(view[1].recs) + 1))
    \/ \E m \in Metadata :
          MaySetMetadata(1) /\ view[1].meta /= m /\ SetMetadata(1, m)
    \/ MayCommit(1) /\ Len(history.log) <= MaxFew /\ ~Committed(1) /\ Commit(1)
    \/ CommitLock(1)
    \/ CommitWrite(1)
    \/ CommitFlush(1)
    \/ hs[1].file /\ GetMetadata(1)
    \/ hs[1].file /\ RecordCount(1)
    \/ \E n \in 1..MaxTyped :
          hs[1].file /\ n <= hs[1].record_count /\ RecordAt(1, n)

SpecUncommitted == InitWithMetadata /\ [][NextUncommitted]_vars

\* C13: on a handle open for write, record_count() is the number of records
\* added so far, record_at(n) returns the n-th of them, and get_metadata()
\* returns what the latest set_metadata was given (None when it was given
\* None), whether the changes have been committed or not.
UncommittedVisible ==
    /\ (ret.op = "record_count") => ret.value = Number(Len(view[ret.h].recs))
    /\ (ret.op = "record_at") =>
           /\ ret.arg[1] <= Len(view[ret.h].recs)
           /\ ret.value = Bytes(as_bytes_of(view[ret.h].recs[ret.arg[1]]))
    /\ (ret.op = "get_metadata") => ret.value = OptionalBytes(view[ret.h].meta)

\* Metadata was cleared after a commit that stored some, nothing was
\* committed since, and get_metadata() is asked while records are
\* uncommitted too.
UncommittedWitness ==
    /\ ret.op = "get_metadata" /\ ret.value = NoValue
    /\ hs[1].pc = "idle" /\ ~Committed(1)
    /\ Len(history.log) > 1
    /\ last_commit.meta /= None
    /\ Len(view[1].recs) > Len(last_commit.recs)
-----------------------------------------------------------------------------
(* C14: what the constructor creates and how it opens. *)

\* Two CaptureFile objects of one process, constructed with every
\* combination of to_write and force_new_empty_file, first when there is no
\* file; records are added and committed, objects are closed and constructed
\* again.  A file is replaced only while no other object reads it.
NextConstruct ==
    \/ \E h \in {1, 2}, to_write \in BOOLEAN, force_new_empty_file \in BOOLEAN,
          initial_metadata \in {None, Some(<<7>>)} :
          /\ \A g \in Handles \ {h} : hs[g].file => hs[g].to_write
          /\ Construct(h, to_write, initial_metadata, force_new_empty_file)
    \/ \E h \in {1, 2} : RefreshLock(h)
    \/ \E h \in {1, 2} : RefreshRead(h)
    \/ \E h \in {1, 2} : hs[h].file /\ Close(h)
    \/ \E h \in {1, 2} :
          /\ MayAdd(h) /\ Len(view[h].recs) < MaxFew
          /\ AddRecord(h, NumberedRecord(Len(view[h].recs) + 1))
    \/ \E h \in {1, 2} : MayCommit(h) /\ Len(history.log) <= MaxFew /\ ~Committed(h) /\ Commit(h)
    \/ \E h \in {1, 2} : CommitLock(h)
    \/ \E h \in {1, 2} : CommitWrite(h)
    \/ \E h \in {1, 2} : CommitFlush(h)

SpecConstruct == InitNoFile /\ [][NextConstruct]_vars

\* C14: a constructor call creates or replaces the file only when it is
\* passed to_write=True, the object it leaves open is open for write exactly
\* when it was passed to_write=True, and a call with to_write=False leaves
\* the file, the writer's lock and the names open for write as they were.
CreatesOnlyForWrite ==
    [][\A h \in {1, 2}, to_write \in BOOLEAN, force_new_empty_file \in BOOLEAN,
          initial_metadata \in {None, Some(<<7>>)} :
          Construct(h, to_write, initial_metadata, force_new_empty_file) =>
              /\ (disk' /= disk) => to_write
              /\ hs'[h].file => (hs'[h].to_write <=> to_write)
              /\ ~to_write => UNCHANGED <<disk, oslocks, registry>>]_vars
-----------------------------------------------------------------------------
(* C15: the file _new_file leaves. *)

\* The file is as _new_file left it: no commit has written a master node
\* since.
AsCreated ==
    /\ disk.exists
    /\ Len(history.log) = 1
    /\ \A h \in Handles : hs[h].pc /= "cflush"

\* C15: in the file as created both master slots hold master nodes with a
\* valid CRC, with serial numbers one apart and an empty rightmost path; the
\* constructor that created it leaves record_count() 0 and a get_metadata()
\* that returns the initial metadata it was passed, None when it was None.
CreatedFileIsEmpty ==
    /\ AsCreated =>
           LET nodes == decode_master_nodes(disk)
           IN  /\ nodes[1] /= None /\ nodes[2] /= None
               /\ (nodes[1][1].serial_number - nodes[2][1].serial_number)
                      % SerialModulus \in {1, SerialModulus - 1}
               /\ \A i \in {1, 2} : nodes[i][1].rightmost_path = <<>>
    /\ \A h \in {1, 2} :
           (AsCreated /\ ret = Outcome(h, "CaptureFile", NoValue)) =>
               /\ hs[h].record_count = 0
               /\ get_metadata(hs[h], disk).ok
               /\ get_metadata(hs[h], disk).v = history.log[1].meta
               /\ hs[h].arg[3] => get_metadata(hs[h], disk).v = hs[h].arg[2]

\* A file that held a committed record was replaced by a constructor call
\* with initial metadata, which has returned; another constructor call on
\* the file as created, from a new object, has returned too.
CreatedWitness ==
    /\ AsCreated
    /\ ret = Outcome(2, "CaptureFile", NoValue)
    /\ hs[2].arg = <<TRUE, Some(<<7>>), TRUE>>
    /\ Len(view[1].recs) > 0
-----------------------------------------------------------------------------
(* C16: initial metadata of any length. *)

\* Initial metadata of n bytes.
LongMetadata(n) == Some([i \in 1..n |-> i])

\* None, and byte strings up to one whose compressed block ends in the last
\* of the new file's initial pages.
InitialMetadata == {None} \cup {LongMetadata(n) : n \in 1..MaxMetadata}

\* Two CaptureFile objects of one process.  The first creates the file, or
\* replaces it while no object has it open, with initial metadata of every
\* length, and is closed and opened again; the second is constructed for
\* read on the file that exists; both are asked for the metadata.
NextLongMetadata ==
    \/ \E initial_metadata \in InitialMetadata, force_new_empty_file \in BOOLEAN :
          /\ \A g \in Handles : ~hs[g].file
          /\ force_new_empty_file \/ ~disk.exists
          /\ Construct(1, TRUE, initial_metadata, force_new_empty_file)
    \/ disk.exists /\ Construct(2, FALSE, None, FALSE)
    \/ \E to_write \in BOOLEAN :
          hs[1].arg /= <<>> /\ ~hs[1].file /\ Open(1, to_write)
    \/ \E h \in {1, 2} : RefreshLock(h)
    \/ \E h \in {1, 2} : RefreshRead(h)
    \/ \E h \in {1, 2} : hs[h].file /\ Close(h)
    \/ \E h \in {1, 2} : hs[h].file /\ GetMetadata(h)

SpecLongMetadata == InitNoFile /\ [][NextLongMetadata]_vars

\* C16: whatever the length of the initial metadata a file was created with,
\* get_metadata() returns exactly that byte string: on the object that
\* created the file, on that object opened again, and on other objects.
InitialMetadataKept ==
    (ret.op = "get_metadata") => ret.value = OptionalBytes(history.log[1].meta)
-----------------------------------------------------------------------------
(* C17: files that do not start with a magic. *)

\* Handles of two processes open the file, for read or for write, and close.
NextHeader ==
    \/ \E h \in Handles, to_write \in BOOLEAN : ~hs[h].file /\ Open(h, to_write)
    \/ \E h \in Handles : RefreshLock(h)
    \/ \E h \in Handles : RefreshRead(h)
    \/ \E h \in Handles : hs[h].file /\ Close(h)

SpecHeader == InitHeaders /\ [][NextHeader]_vars

\* Whether the first 11 bytes of the file are one of the two magics.
valid_magic == disk.header.capture_file_type \in {"MioCapture", "WebCapture"}

\* C17: an open of a file whose first 11 bytes are not a magic raises
\* InvalidCaptureFile, however long the file is.  (An open for write that is
\* refused before the header is read, because the file is open for write,
\* raises CaptureFileAlreadyOpen.)
BadMagicIsInvalid ==
    (ret.op = "open" /\ ~valid_magic
         /\ ret.value /= Raised("CaptureFileAlreadyOpen")) =>
        ret.value = Raised("InvalidCaptureFile")

-----------------------------------------------------------------------------
(* C18: the version in the header. *)

-----------------------------------------------------------------------------
(* C19: record numbers out of range. *)

\* A writer (handle 1) that adds records and commits, and a reader (handle
\* 2) that opens and refreshes; both ask for records by every number from
\* below 1 to beyond the last.
NextOutOfRange ==
    \/ ~hs[1].file /\ Open(1, TRUE)
    \/ ~hs[2].file /\ Open(2, FALSE)
    \/ hs[2].file /\ Refresh(2)
    \/ \E h \in {1, 2} : RefreshLock(h)
    \/ \E h \in {1, 2} : RefreshRead(h)
    \/ /\ MayAdd(1) /\ Len(view[1].recs) < MaxTyped
       /\ AddRecord(1, NumberedRecord(Len(view[1].recs) + 1))
    \/ MayCommit(1) /\ Len(history.log) <= MaxFew /\ ~Committed(1) /\ Commit(1)
    \/ CommitLock(1)
    \/ CommitWrite(1)
    \/ CommitFlush(1)
    \/ \E h \in {1, 2}, n \in (0 - 1)..(MaxTyped + 1) : hs[h].file /\ RecordAt(h, n)

SpecOutOfRange == InitEmpty /\ [][NextOutOfRange]_vars

\* C19: on an open handle record_at(n) with n < 1 or n > record_count()
\* raises IndexError, also when the file has no records, and changes
\* nothing: the handle stays open, and its state, the file and the locks
\* are as before the call.
OutOfRangeRaisesIndexError ==
    [][\A h \in {1, 2}, n \in (0 - 1)..(MaxTyped + 1) :
          (RecordAt(h, n) /\ hs[h].file /\ (n < 1 \/ n > hs[h].record_count)) =>
              /\ ret'.value = Raised("IndexError")
              /\ hs'[h].file
              /\ UNCHANGED <<hs, disk, oslocks, registry>>]_vars

\* The reader, one commit behind the writer, has asked for the record the
\* writer has and it has not, and the writer for the number after its last.
OutOfRangeWitness ==
    /\ ret = OutcomeOf(2, "record_at", <<2>>, Raised("IndexError"))
    /\ hs[2].file /\ hs[2].record_count = 1
    /\ hs[1].file /\ hs[1].record_count = 2
-----------------------------------------------------------------------------
(* C20: calls on a handle that is closed, or open for read. *)

\* A call of add_record, set_metadata or commit on the handle.
WriteCall(h) ==
    \/ AddRecord(h, NumberedRecord(Len(view[h].recs) + 1))
    \/ \E m \in {None, Some(<<7>>)} : SetMetadata(h, m)
    \/ Commit(h)

\* A call of refresh, get_metadata, record_at or record_generator.
ReadCall(h) ==
    \/ Refresh(h)
    \/ GetMetadata(h)
    \/ RecordAt(h, 1)
    \/ RecordGenerator(h, 1)

\* Two objects: the first is opened for read or for write and closed, the
\* second for read; every method is called on them while they are closed
\* and while they are open for read, and the writer adds a few records and
\* commits.
NextNotOpen ==
    \/ \E to_write \in BOOLEAN : ~hs[1].file /\ Open(1, to_write)
    \/ ~hs[2].file /\ Open(2, FALSE)
    \/ \E h \in {1, 2} : RefreshLock(h)
    \/ \E h \in {1, 2} : RefreshRead(h)
    \/ \E h \in {1, 2} : hs[h].file /\ Close(h)
    \/ \E h \in {1, 2} :
          /\ open_for_write(h) =>
                 /\ Len(view[h].recs) < MaxFew /\ Len(history.log) <= MaxFew
                 /\ view[h].meta = None
          /\ WriteCall(h)
    \/ \E h \in {1, 2} : CommitLock(h)
    \/ \E h \in {1, 2} : CommitWrite(h)
    \/ \E h \in {1, 2} : CommitFlush(h)
    \/ \E h \in {1, 2} : ~hs[h].file /\ ReadCall(h)

SpecNotOpen == InitEmpty /\ [][NextNotOpen]_vars

\* The step is a call of add_record, set_metadata or commit on the handle.
WriteCalled(h) ==
    /\ ret'.h = h
    /\ \/ ret'.op = "add_record" /\ AddRecord(h, ret'.arg[1])
       \/ ret'.op = "set_metadata" /\ SetMetadata(h, ret'.arg[1])
       \/ ret'.op = "commit" /\ Commit(h)

\* The step is a call of refresh, get_metadata, record_at or
\* record_generator on the handle.
ReadCalled(h) ==
    /\ ret'.h = h
    /\ \/ ret'.op = "refresh" /\ Refresh(h)
       \/ ret'.op = "get_metadata" /\ GetMetadata(h)
       \/ ret'.op = "record_at" /\ RecordAt(h, ret'.arg[1])
       \/ ret'.op = "record_generator" /\ RecordGenerator(h, ret'.arg[1])

\* C20: add_record, set_metadata and commit raise CaptureFileNotOpen on a
\* closed handle, whichever way it was last opened, and
\* CaptureFileNotOpenForWrite on a handle open for read; refresh,
\* get_metadata, record_at and record_generator raise CaptureFileNotOpen on
\* a closed handle; and none of these calls changes the handle's state, the
\* file, the locks or the names open for write.
NotOpenRaises ==
    [][\A h \in {1, 2} :
          /\ (WriteCalled(h) /\ ~hs[h].file) =>
                 /\ ret'.value = Raised("CaptureFileNotOpen")
                 /\ UNCHANGED <<hs, disk, oslocks, registry>>
          /\ (WriteCalled(h) /\ hs[h].file /\ ~hs[h].to_write) =>
                 /\ ret'.value = Raised("CaptureFileNotOpenForWrite")
                 /\ UNCHANGED <<hs, disk, oslocks, registry>>
          /\ (ReadCalled(h) /\ ~hs[h].file) =>
                 /\ ret'.value = Raised("CaptureFileNotOpen")
                 /\ UNCHANGED <<hs, disk, oslocks, registry>>]_vars

\* A handle that was open for read, and has records, was closed, and
\* add_record on it has raised CaptureFileNotOpen while another handle has
\* the file open for write.
NotOpenWitness ==
    /\ ret.h = 2 /\ ret.op = "add_record"
    /\ ret.value = Raised("CaptureFileNotOpen")
    /\ ~hs[2].file /\ ~hs[2].to_write /\ hs[2].record_count > 0
    /\ open_for_write(1)
-----------------------------------------------------------------------------
(* C21: the caches of a handle that discards what it appended. *)

\* One handle, open for write: records of two kinds are added, committed
\* or not, read back, and discarded by refresh or by close and open, while
\* the writes the handle has buffered stay within MaxData.
NextCaches ==
    \/ ~hs[1].file /\ Open(1, TRUE)
    \/ hs[1].file /\ ~Committed(1) /\ Refresh(1)
    \/ RefreshLock(1)
    \/ RefreshRead(1)
    \/ hs[1].file /\ ~Committed(1) /\ Close(1)
    \/ \E b \in {97, 98} :
          /\ MayAdd(1) /\ Len(view[1].recs) < MaxFew
          /\ Len(hs[1].pend) < MaxData
          /\ AddRecord(1, Bytes(<<b>>))
    \/ MayCommit(1) /\ Len(history.log) < MaxFew /\ ~Committed(1) /\ Commit(1)
    \/ CommitLock(1)
    \/ CommitWrite(1)
    \/ CommitFlush(1)
    \/ \E n \in 1..MaxFew : hs[1].file /\ n <= hs[1].record_count /\ RecordAt(1, n)

SpecCaches == InitEmpty /\ [][NextCaches]_vars

\* C21: whatever the handle appended and discarded before, record_at(i)
\* returns the i-th record of the handle's current sequence of records.
CachesNeverStale ==
    (ret.op = "record_at") =>
        /\ ret.arg[1] <= Len(view[ret.h].recs)
        /\ ret.value = Bytes(as_bytes_of(view[ret.h].recs[ret.arg[1]]))
-----------------------------------------------------------------------------
(* C22: the metadata a handle returns after a refresh or a reopen. *)

\* A writer (handle 1) that sets metadata, commits or not, closes and opens
\* again, and a reader in another process (handle 3) that opens and
\* refreshes; both are asked for the metadata at any point.
NextReread ==
    \/ ~hs[1].file /\ Open(1, TRUE)
    \/ ~hs[3].file /\ Open(3, FALSE)
    \/ hs[3].file /\ Refresh(3)
    \/ \E h \in {1, 3} : RefreshLock(h)
    \/ \E h \in {1, 3} : RefreshRead(h)
    \/ hs[1].file /\ Close(1)
    \/ \E m \in Metadata :
          MaySetMetadata(1) /\ Committed(1) /\ view[1].meta /= m /\ SetMetadata(1, m)
    \/ MayCommit(1) /\ Len(history.log) <= MaxFew /\ ~Committed(1) /\ Commit(1)
    \/ CommitLock(1)
    \/ CommitWrite(1)
    \/ CommitFlush(1)
    \/ \E h \in {1, 3} : hs[h].file /\ GetMetadata(h)

SpecReread == InitWithMetadata /\ [][NextReread]_vars

\* C22: a handle that has set no metadata since its last refresh or open
\* returns from get_metadata() the metadata of the master node that refresh
\* or open read, whatever it returned or was given before.
MetadataReread ==
    (ret.op = "get_metadata" /\ (ret.h = 3 \/ Committed(1))) =>
        ret.value = OptionalBytes(view[ret.h].meta)
-----------------------------------------------------------------------------
(* C23: the position of a master node. *)

\* A writer (handle 1) that commits until the serial number has wrapped,
\* its first commits with a new record or without, and closes and opens; a reader in another
\* process (handle 3) that opens, refreshes and closes at any point.
NextSlots ==
    \/ ~hs[1].file /\ Open(1, TRUE)
    \/ ~hs[3].file /\ Open(3, FALSE)
    \/ hs[3].file /\ Refresh(3)
    \/ \E h \in {1, 3} : RefreshLock(h)
    \/ \E h \in {1, 3} : RefreshRead(h)
    \/ \E h \in {1, 3} : hs[h].file /\ Committed(h) /\ Close(h)
    \/ /\ MayAdd(1) /\ Committed(1) /\ Len(history.log) < MaxFew
       /\ AddRecord(1, Bytes(<<97>>))
    \/ /\ hs[1].file /\ hs[1].to_write
       /\ Len(history.log) < SerialModulus + MaxFew
       /\ Commit(1)
    \/ CommitLock(1)
    \/ CommitWrite(1)
    \/ CommitFlush(1)

SpecSlots == InitEmpty /\ [][NextSlots]_vars

\* The serial number of the master node in a slot.
serial_at(i) == new_from(disk.slots[i].buffer).serial_number

-----------------------------------------------------------------------------
(* C25: the master node a refresh takes when both are valid. *)

\* C25: for every serial number s, the last before the wrap included, a
\* refresh or an open that reads two valid master nodes with the serial
\* numbers s and s + 1 modulo SerialModulus returns, and the handle has the
\* master node of the slot that holds s + 1.
NewestIsCurrent ==
    [][\A h \in {1, 3}, s \in 0..(SerialModulus - 1), i \in {1, 2} :
          (/\ hs[h].pc = "rread" /\ hs'[h].pc /= "rread"
           /\ crc_ok(disk.slots[1]) /\ crc_ok(disk.slots[2])
           /\ serial_at(i) = s
           /\ serial_at(3 - i) = (s + 1) % SerialModulus) =>
              /\ ret'.h = h /\ ret'.value = NoValue
              /\ hs'[h].file
              /\ hs'[h].master = new_from(disk.slots[3 - i].buffer)]_vars

\* The reader has refreshed a file whose master nodes have the last serial
\* number and 0, and has the master node with 0.
WrapWitness ==
    /\ ret = Outcome(3, "refresh", NoValue)
    /\ crc_ok(disk.slots[1]) /\ serial_at(1) = 0
    /\ crc_ok(disk.slots[2]) /\ serial_at(2) = SerialModulus - 1
    /\ hs[3].master = new_from(disk.slots[1].buffer)
-----------------------------------------------------------------------------
(* C24: the slots after a commit. *)

\* C24: after every commit that has completed, both slots hold master nodes
\* that pass the crc check and whose serial numbers differ by exactly 1
\* modulo SerialModulus, the later one in the slot the commit has written.
SlotsAlternate ==
    (ret.op = "commit" /\ ret.value = NoValue) =>
        /\ crc_ok(disk.slots[1]) /\ crc_ok(disk.slots[2])
        /\ \E i \in {1, 2} :
              /\ hs[ret.h].master = new_from(disk.slots[i].buffer)
              /\ serial_at(i) = (serial_at(3 - i) + 1) % SerialModulus
-----------------------------------------------------------------------------
(* C26: a commit that raises before it has written. *)

\* C26: whatever commits have raised while they waited for the lock, two
\* master nodes that both pass the crc check have consecutive serial
\* numbers, and every open and refresh that has read them returns.
FailedCommitHarmless ==
    /\ (crc_ok(disk.slots[1]) /\ crc_ok(disk.slots[2])) =>
           (serial_at(1) - serial_at(2)) % SerialModulus \in {1, SerialModulus - 1}
    /\ (ret.op \in {"open", "refresh"}
            /\ ret.value \notin {Pending, Raised("OSError")}) =>
           ret.value = NoValue
-----------------------------------------------------------------------------
(* C27: the attempts of a refresh. *)

\* One unit of the body of a master node that passes its crc check is
\* altered in the file while no handle has it open for write.
Damage(slot, unit) ==
    /\ \A h \in Handles : ~(hs[h].file /\ hs[h].to_write)
    /\ crc_ok(disk.slots[slot])
    /\ disk' = [disk EXCEPT !.slots[slot].buffer[unit] = <<"altered", @>>]
    /\ history' = [history EXCEPT !.corruptions = @ + 1]
    /\ ret' = Outcome(0, "altered", NoValue)
    /\ UNCHANGED <<oslocks, registry, hs, view>>

\* A writer (handle 1) that commits, retries the commits that gave up on
\* the lock, and closes; a reader in another process (handle 3)
\* that opens and refreshes, under either kind of lock; under the POSIX
\* locks either master node, or both, is damaged while the writer is
\* closed.
NextAttempts ==
    \/ ~hs[1].file /\ Open(1, TRUE)
    \/ ~hs[3].file /\ Open(3, FALSE)
    \/ hs[3].file /\ Refresh(3)
    \/ \E h \in {1, 3} : RefreshLock(h)
    \/ \E h \in {1, 3} : RefreshRead(h)
    \/ \E h \in {1, 3} : RefreshTimeout(h)
    \/ hs[1].file /\ Committed(1) /\ Close(1)
    \/ MayCommit(1) /\ Len(history.log) <= MaxFew /\ Commit(1)
    \/ CommitLock(1)
    \/ CommitTimeout(1)
    \/ CommitWrite(1)
    \/ CommitFlush(1)
    \/ \E slot \in {1, 2} :
          /\ oslocks.platform = "posix" /\ history.corruptions < MaxFew
          /\ Damage(slot, 1)

SpecAttempts == InitEitherPlatform /\ [][NextAttempts]_vars

\* Neither master node passes its crc check, or both do and their serial
\* numbers are not consecutive.
no_consistent_pair ==
    \/ ~crc_ok(disk.slots[1]) /\ ~crc_ok(disk.slots[2])
    \/ /\ crc_ok(disk.slots[1]) /\ crc_ok(disk.slots[2])
       /\ (serial_at(1) - serial_at(2)) % SerialModulus \notin {1, SerialModulus - 1}

\* C27: an attempt of a refresh (or of the refresh inside open) that reads
\* a consistent pair of master nodes ends the call with success; the first
\* attempt that fails is followed by the second without a sleep, the second
\* by the third after a sleep of 4 seconds; the third that fails raises
\* InvalidCaptureFile, and no attempt follows it.
ThreeAttempts ==
    [][\A h \in {1, 3} :
          (hs[h].pc = "rread" /\ hs'[h].pc /= "rread") =>
              /\ hs[h].attempt \in 0..2
              /\ ~no_consistent_pair =>
                     /\ ret' = Outcome(h, hs[h].call, NoValue)
                     /\ hs'[h].file /\ hs'[h].pc = "idle"
              /\ (no_consistent_pair /\ hs[h].attempt = 0) =>
                     /\ hs'[h].pc = "rwait" /\ hs'[h].attempt = 1
                     /\ hs'[h].slept = hs[h].slept
                     /\ ret' = ret
              /\ (no_consistent_pair /\ hs[h].attempt = 1) =>
                     /\ hs'[h].pc = "rwait" /\ hs'[h].attempt = 2
                     /\ hs'[h].slept = hs[h].slept + 4
                     /\ ret' = ret
              /\ (no_consistent_pair /\ hs[h].attempt = 2) =>
                     /\ ret' = Outcome(h, hs[h].call, Raised("InvalidCaptureFile"))
                     /\ hs'[h].pc = "idle"]_vars

\* The third attempt of the reader's refresh, made after the sleep, is about
\* to read a pair of master nodes that has become consistent.
ThirdAttemptWitness ==
    /\ hs[3].pc = "rread" /\ hs[3].call = "refresh"
    /\ hs[3].attempt = 2 /\ hs[3].slept = RetrySleep
    /\ ~no_consistent_pair
-----------------------------------------------------------------------------
(* C28: a refresh that raises. *)

\* The writer and the reader of NextAttempts, whose opens and refreshes
\* raise when both master nodes are damaged, when their serial numbers are
\* not consecutive and when the wait for the lock is given up; and every
\* method called on them while they are closed.
NextRaised ==
    \/ NextAttempts
    \/ \E h \in {1, 3} : ~hs[h].file /\ ReadCall(h)
    \/ \E h \in {1, 3} : ~hs[h].file /\ WriteCall(h)

SpecRaised == InitEitherPlatform /\ [][NextRaised]_vars

\* C28: when a refresh, or the refresh inside open, raises, the handle is
\* closed, and if it was open for write its name is no longer among the
\* names open for write in its process and it holds no lock on the file;
\* every call on a closed handle raises CaptureFileNotOpen.
RefreshRaiseCloses ==
    [][\A h \in {1, 3} :
          /\ (hs[h].pc \in {"rwait", "rread"} /\ hs'[h].pc = "idle"
                  /\ ret'.value /= NoValue) =>
                 /\ ret'.h = h
                 /\ ret'.value \in {Raised("InvalidCaptureFile"), Raised("OSError")}
                 /\ ~hs'[h].file
                 /\ hs[h].to_write =>
                        /\ Path(hs[h].file_name) \notin registry'[ProcOf[h]]
                        /\ Owner(h) \notin oslocks'.writer
                        /\ \A l \in oslocks'.master : l[1] /= Owner(h)
          /\ ((ReadCalled(h) \/ WriteCalled(h)) /\ ~hs[h].file) =>
                 ret'.value = Raised("CaptureFileNotOpen")]_vars

\* The open for write of a file whose master nodes are both damaged has
\* raised InvalidCaptureFile: the handle is closed, no name is open for
\* write and no lock is held.
RaisedWitness ==
    /\ ret.h = 1 /\ ret.op = "open" /\ ret.value = Raised("InvalidCaptureFile")
    /\ ~crc_ok(disk.slots[1]) /\ ~crc_ok(disk.slots[2])
    /\ ~hs[1].file /\ hs[1].to_write
    /\ registry[1] = {} /\ oslocks.writer = {} /\ oslocks.master = {}
-----------------------------------------------------------------------------
(* C29: an open that fails. *)

\* C29: when an open raises CaptureFileAlreadyOpen or InvalidCaptureFile,
\* from the header check at once or from the refresh that follows it, the
\* handle is closed, the names open for write are those of before the call,
\* the handle holds no lock and the file is as it was.
FailedOpenLeavesNothing ==
    [][\A h \in Handles :
          /\ (/\ hs[h].pc = "idle" /\ ~hs[h].file
               /\ ret'.h = h /\ ret'.op = "open" /\ Open(h, ret'.arg[1])
               /\ ret'.value \in {Raised("CaptureFileAlreadyOpen"),
                                  Raised("InvalidCaptureFile")}) =>
                 /\ ~hs'[h].file
                 /\ registry' = registry
                 /\ oslocks' = oslocks
                 /\ disk' = disk
          /\ (/\ hs[h].pc \in {"rwait", "rread"} /\ hs[h].call = "open"
               /\ hs'[h].pc = "idle"
               /\ ret'.value = Raised("InvalidCaptureFile")) =>
                 /\ ~hs'[h].file
                 /\ hs[h].to_write => Path(hs[h].file_name) \notin registry'[ProcOf[h]]
                 /\ Owner(h) \notin oslocks'.writer
                 /\ \A l \in oslocks'.master : l[1] /= Owner(h)
                 /\ disk' = disk]_vars
-----------------------------------------------------------------------------
(* C30: a new file forced under a writer. *)

\* The handle's descriptor is on the file that is at file_name.
attached(h) == hs[h].file => Owner(h) \in oslocks.writer

\* A writer in another process (handle 3) and one in this process (handle
\* 2) open for write, add a record, commit and close, while in this process
\* an object (handle 1) is constructed with force_new_empty_file=True at
\* any point and closed.  A writer is followed while its file is the one
\* at file_name.
NextReplace ==
    \/ \E h \in {2, 3} : ~hs[h].file /\ Open(h, TRUE)
    \/ \E to_write \in BOOLEAN :
          /\ ~hs[1].file /\ \A g \in {2, 3} : hs[g].pc = "idle"
          /\ Construct(1, to_write, None, TRUE)
    \/ \E h \in Handles : attached(h) /\ RefreshLock(h)
    \/ \E h \in Handles : attached(h) /\ RefreshRead(h)
    \/ \E h \in Handles : hs[h].file /\ attached(h) /\ Close(h)
    \/ \E h \in {2, 3} :
          /\ attached(h) /\ MayAdd(h) /\ Len(view[h].recs) < MaxFew
          /\ AddRecord(h, Bytes(<<97>>))
    \/ \E h \in {2, 3} :
          /\ attached(h) /\ MayCommit(h) /\ Len(history.log) <= MaxFew
          /\ ~Committed(h) /\ Commit(h)
    \/ \E h \in {2, 3} : attached(h) /\ CommitLock(h)
    \/ \E h \in {2, 3} : attached(h) /\ CommitWrite(h)
    \/ \E h \in {2, 3} : attached(h) /\ CommitFlush(h)

SpecReplace == InitEmpty /\ [][NextReplace]_vars

\* C30: a construction with force_new_empty_file=True made while a handle,
\* of this process or of another, has the file open for write raises
\* CaptureFileAlreadyOpen and leaves the file, the locks and the names open
\* for write as they were.
ForcedNewFileRefused ==
    [][\A to_write \in BOOLEAN :
          (/\ ret'.h = 1 /\ ret'.op = "CaptureFile"
           /\ Construct(1, to_write, None, TRUE)
           /\ \E g \in {2, 3} : open_for_write(g)) =>
              /\ ret'.value = Raised("CaptureFileAlreadyOpen")
              /\ UNCHANGED <<disk, oslocks, registry>>]_vars
-----------------------------------------------------------------------------
(* C31: the file named in more than one way. *)

\* Ways of naming the file /dir/f.capture from the directory /dir: absolute,
\* relative, and with components that change nothing.
FileNames ==
    {DefaultFileName,
     <<"/", <<"dir", ".", "f.capture">>>>,
     <<"/", <<"dir", "..", "dir", "f.capture">>>>,
     <<"", <<"f.capture">>>>,
     <<"", <<".", "f.capture">>>>}

\* The existing file; the two objects of the first process are constructed
\* with any two of the names, under either kind of lock.
InitPaths ==
    \E platform \in {"posix", "windows"}, names \in [{1, 2} -> FileNames] :
        /\ disk = new_file(None)
        /\ oslocks = [platform |-> platform, writer |-> {}, master |-> {}]
        /\ registry = [p \in Procs |-> {}]
        /\ hs = [h \in Handles |->
                   IF h \in {1, 2}
                   THEN [FreshHandle("none") EXCEPT !.file_name = names[h]]
                   ELSE FreshHandle("none")]
        /\ history = [slots |-> [i \in {1, 2} |-> Content(<<>>, None)],
                      log |-> <<Content(<<>>, None)>>,
                      crashes |-> 0, corruptions |-> 0]
        /\ view = [h \in Handles |-> Content(<<>>, None)]
        /\ ret = Outcome(0, "new_file", NoValue)

SpecPaths == InitPaths /\ [][NextExclusion]_vars

\* C31: an open for write made while another object of the same process has
\* the file open for write raises CaptureFileAlreadyOpen, whichever names
\* the two objects were given for the file, and the two are never open for
\* write together.
SameFileRefused ==
    /\ ~(open_for_write(1) /\ open_for_write(2))
    /\ \A h \in {1, 2} :
          (ret.h = h /\ ret.op = "open" /\ ret.arg = <<TRUE>>
               /\ open_for_write(3 - h)) =>
              ret.value = Raised("CaptureFileAlreadyOpen")
-----------------------------------------------------------------------------
(* C32: generators that start outside the records. *)

\* One handle that opens the file for write and adds numbered records;
\* between the additions generators are made from 0 and from every record
\* number above the record count, up to twice MaxRecords, and run.
NextPastEnd ==
    \/ ~hs[1].file /\ Open(1, TRUE)
    \/ RefreshLock(1)
    \/ RefreshRead(1)
    \/ /\ MayAdd(1) /\ ~hs[1].gen.live
       /\ AddRecord(1, NumberedRecord(Len(view[1].recs) + 1))
    \/ \E start \in 0..(2 * MaxRecords) :
          /\ hs[1].file /\ hs[1].pc = "idle" /\ ~hs[1].gen.live
          /\ start = 0 \/ start > hs[1].record_count
          /\ RecordGenerator(1, start)
    \/ GeneratorNext(1)

SpecPastEnd == InitEmpty /\ [][NextPastEnd]_vars

\* C32: record_generator(start) raises IndexError when start < 1, and the
\* first next() on a generator made with start above the record count, the
\* record count 0 included, raises StopIteration.
PastEndYieldsNothing ==
    /\ (ret.op = "record_generator" /\ ret.arg[1] < 1) =>
           ret.value = Raised("IndexError")
    /\ (ret.op = "next" /\ hs[ret.h].gen.start > hs[ret.h].gen.count) =>
           ret.value = Raised("StopIteration")
-----------------------------------------------------------------------------
(* C33: the master nodes read while they are written. *)

\* C33: while a handle is writing a master node no other handle is reading
\* the master nodes, and the master node a reader's open or refresh has
\* taken is that of a commit that has completed.
MasterNodesExclusive ==
    /\ \A w \in Handles : \A r \in Handles \ {w} :
          ~(hs[w].pc \in {"cwrite", "cflush"} /\ hs[r].pc = "rread")
    /\ \A r \in {2, 3} :
          (ret.h = r /\ ret.op \in {"open", "refresh"} /\ ret.value = NoValue) =>
              \E n \in 1..Len(history.log) : history.log[n] = view[r]
-----------------------------------------------------------------------------
(* C34: the master-node lock is held only inside commit and refresh. *)

\* The handle is between taking the master-node lock and releasing it.
inside_master_nodes_lock(h) == hs[h].pc \in {"rread", "cwrite", "cflush"}

\* C34: every master-node lock on the file belongs to a handle that is
\* inside the locked part of a commit or refresh; when the operation has
\* returned or raised the lock is gone, so that once no handle is inside an
\* operation no master-node lock is held.
MasterLockOnlyInside ==
    \A l \in oslocks.master :
        \E h \in Handles : Owner(h) = l[1] /\ inside_master_nodes_lock(h)

\* A refresh that held the lock has raised InvalidCaptureFile, no handle is
\* inside an operation and no master-node lock is left.
LockReleasedWitness ==
    /\ ret.op \in {"open", "refresh"} /\ ret.value = Raised("InvalidCaptureFile")
    /\ \A h \in Handles : hs[h].pc = "idle"
    /\ oslocks.master = {}
    /\ Len(history.log) > 1
-----------------------------------------------------------------------------
(* C35: waiting for the master-node lock. *)

\* One writer that commits and readers that refresh, each of them scheduled
\* again and again: a step of a handle that stays possible is taken.  The
\* operating system promises no order among requests for a lock, and the
\* end of the wait of msvcrt.locking is a matter of time, so neither the
\* grant of a lock that is free only now and then nor the timeout is forced.
NextWaiting ==
    \/ ~hs[1].file /\ Open(1, TRUE)
    \/ \E h \in {2, 3} : hs[1].file /\ ~hs[h].file /\ Open(h, FALSE)
    \/ \E h \in {2, 3} : hs[h].file /\ Refresh(h)
    \/ \E h \in Handles : RefreshLock(h)
    \/ \E h \in Handles : RefreshRead(h)
    \/ \E h \in Handles : RefreshTimeout(h)
    \/ MayCommit(1) /\ Len(history.log) <= MaxFew /\ Commit(1)
    \/ CommitLock(1)
    \/ CommitTimeout(1)
    \/ CommitWrite(1)
    \/ CommitFlush(1)

SpecWaiting ==
    /\ InitEitherPlatform /\ [][NextWaiting]_vars
    /\ \A h \in Handles : WF_vars(RefreshLock(h)) /\ WF_vars(RefreshRead(h))
    /\ WF_vars(CommitLock(1)) /\ WF_vars(CommitWrite(1)) /\ WF_vars(CommitFlush(1))

\* The handle has asked for the master-node lock and does not hold it yet.
waiting_for_master_nodes_lock(h) == hs[h].pc \in {"rwait", "cwait"}

\* C35: while a handle waits for the master-node lock some handle can take
\* or holds it (no deadlock), every handle that waits for the lock comes to
\* hold it, and every handle that holds it finishes its commit or refresh.
WaitsAreGranted ==
    /\ [](\A h \in Handles : waiting_for_master_nodes_lock(h) =>
              \E g \in Handles : inside_master_nodes_lock(g)
                                    \/ (waiting_for_master_nodes_lock(g) /\ master_lock_granted(g)))
    /\ \A h \in Handles :
          /\ waiting_for_master_nodes_lock(h) ~> inside_master_nodes_lock(h)
          /\ inside_master_nodes_lock(h) ~> (hs[h].pc = "idle")
-----------------------------------------------------------------------------
(* C36: the order of the steps of commit. *)

\* A writer that adds records and commits while a reader of another process
\* opens and refreshes, under either kind of lock.
NextOrder ==
    \/ ~hs[1].file /\ Open(1, TRUE)
    \/ hs[1].file /\ ~hs[3].file /\ Open(3, FALSE)
    \/ hs[3].file /\ Refresh(3)
    \/ \E h \in {1, 3} : RefreshLock(h)
    \/ \E h \in {1, 3} : RefreshRead(h)
    \/ \E h \in {1, 3} : RefreshTimeout(h)
    \/ MayAdd(1) /\ Len(view[1].recs) < MaxTyped /\ AddRecord(1, Bytes(<<97>>))
    \/ MayCommit(1) /\ ~Committed(1) /\ Len(history.log) <= MaxFew /\ Commit(1)
    \/ CommitLock(1)
    \/ CommitTimeout(1)
    \/ CommitWrite(1)
    \/ CommitFlush(1)

SpecOrder == InitEitherPlatform /\ [][NextOrder]_vars

\* C36: the steps of a commit come in the order flush, increment of the
\* serial number, lock, write of the master node, flush, unlock.  When the
\* commit asks for the lock nothing it wrote is left in the buffer of the
\* file and the serial number is already incremented, neither master node
\* having changed; the lock is taken before anything is written; the write
\* of the master node changes nothing but its slot, with the buffer still
\* empty and the lock not yet released; and when the lock is released the
\* slot holds the whole of the new master node.  Nothing else writes a slot.
CommitOrder ==
    [][\A h \in Handles :
        LET m == hs[h].master
            serial_kept == hs'[h].master.serial_number = m.serial_number
        IN  /\ (hs[h].pc = "idle" /\ hs'[h].pc = "cwait") =>
                  /\ hs'[h].pend = <<>>
                  /\ hs'[h].master.serial_number = (m.serial_number + 1) % SerialModulus
                  /\ disk'.slots = disk.slots /\ oslocks' = oslocks
            /\ (hs[h].pc = "cwait" /\ hs'[h].pc = "cwrite") =>
                  /\ <<Owner(h), lock_type(h)>> \in oslocks'.master
                  /\ disk' = disk /\ serial_kept
            /\ (hs[h].pc = "cwrite" /\ hs'[h].pc = "cflush") =>
                  /\ hs[h].pend = <<>> /\ disk'.data = disk.data
                  /\ disk'.slots[3 - slot_of(m)] = disk.slots[3 - slot_of(m)]
                  /\ oslocks' = oslocks /\ serial_kept
            /\ (hs[h].pc = "cflush" /\ hs'[h].pc = "idle") =>
                  /\ disk'.slots[slot_of(m)] = slot_image(m)
                  /\ disk'.data = disk.data /\ serial_kept
                  /\ \A l \in oslocks'.master : l[1] /= Owner(h)
            /\ disk'.slots /= disk.slots =>
                  \E w \in Handles : hs[w].pc \in {"cwrite", "cflush"} /\ hs'[w].pc /= hs[w].pc
      ]_vars

\* A commit of added records has returned: the slot of its master node holds
\* it whole, and the other slot holds the master node before it.
OrderWitness ==
    /\ ret.op = "commit" /\ ret.value = NoValue
    /\ hs[ret.h].pc = "idle" /\ hs[ret.h].record_count = MaxTyped
    /\ hs[ret.h].master.file_limit > initial_file_limit
    /\ disk.slots[slot_of(hs[ret.h].master)] = slot_image(hs[ret.h].master)
    /\ oslocks.master = {}
-----------------------------------------------------------------------------
(* C37: what a commit has left below its file limit. *)

\* A writer creates the file with initial metadata of every length, adds
\* records of one and of two bytes, commits, closes with and without a
\* commit, and opens again.
NextFrame ==
    \/ \E initial_metadata \in InitialMetadata :
          ~disk.exists /\ Construct(1, TRUE, initial_metadata, FALSE)
    \/ disk.exists /\ ~hs[1].file /\ Open(1, TRUE)
    \/ RefreshLock(1)
    \/ RefreshRead(1)
    \/ \E r \in {Bytes(<<97>>), Str(<<233>>)} :
          MayAdd(1) /\ Len(view[1].recs) < MaxTyped /\ AddRecord(1, r)
    \/ MayCommit(1) /\ Len(history.log) <= MaxFew /\ Commit(1)
    \/ CommitLock(1)
    \/ CommitWrite(1)
    \/ CommitFlush(1)
    \/ hs[1].file /\ Close(1)

SpecFrame == InitNoFile /\ [][NextFrame]_vars

\* The start of the page the file limit lies in.
page_floor(file_limit) == (file_limit \div PageSize) * PageSize

\* Every cell of the file d below the page floor of the file limit of a
\* master node that a slot of d holds is the same in the file e.
below_floor_kept(d, e) ==
    \A i \in {1, 2} :
        crc_ok(d.slots[i]) =>
            \A o \in DOMAIN d.data :
                o < page_floor(new_from(d.slots[i].buffer).file_limit) =>
                    o \in DOMAIN e.data /\ e.data[o] = d.data[o]

\* C37: once a commit has completed no later write changes a byte of the
\* data region below the page floor of its file limit: no step of an open
\* file does, and the file a creation leaves has below that floor what the
\* second commit of the creation left there.
CommittedDataKept ==
    [][/\ disk.exists => below_floor_kept(disk, disk')
       /\ \A initial_metadata \in InitialMetadata :
             (~disk.exists /\ disk' = new_file(initial_metadata)) =>
                 below_floor_kept(new_file_committed_twice(initial_metadata), disk')
      ]_vars
-----------------------------------------------------------------------------
(* C38: the configuration page, the master nodes and the data region. *)

\* C38: once the file is created its configuration page is never written
\* again; every write of data, in the file or still in the buffer of a
\* handle, is at an offset at or after page_size + 2 * master_node_size;
\* every master node written fills its slot exactly, the compression block
\* of a handle being shorter than compression_block_size whenever a master
\* node can be encoded.
RegionsApart ==
    /\ [](disk.exists =>
            /\ \A o \in DOMAIN disk.data : o >= PageSize + 2 * master_node_size
            /\ \A h \in Handles : \A i \in 1..Len(hs[h].pend) :
                  hs[h].pend[i][1] >= PageSize + 2 * master_node_size
            /\ \A i \in {1, 2} : Len(disk.slots[i].buffer) + 1 = image_units
            /\ \A h \in Handles : Len(hs[h].cblock) < compression_block_size)
    /\ [][disk.exists => disk'.header = disk.header]_vars

\* A commit has written a master node with a compression block that is not
\* empty, after blocks were written at and beyond the end of the initial
\* pages.
RegionsWitness ==
    /\ ret.op = "commit" /\ ret.value = NoValue
    /\ hs[ret.h].pc = "idle" /\ Len(hs[ret.h].cblock) > 0
    /\ hs[ret.h].master.file_limit > PageSize * InitialPages
    /\ Len(history.log) > 2
-----------------------------------------------------------------------------
(* C39: the shape of the rightmost path. *)

\* The number of digits of n > 0 written in base fan_out.
digits(n) ==
    CHOOSE d \in 1..n : power_of_fan_out(d - 1) <= n /\ n < power_of_fan_out(d)

\* C39: when add_record has returned, every node of the rightmost path has
\* fewer than fan_out children, the node of the top level has a child, and
\* the path has as many levels as the record count has digits in base
\* fan_out; the add_record has added a level exactly when the record count
\* it returned is a power of fan_out.
PathShape ==
    [][\A h \in Handles :
        (ret'.h = h /\ ret'.op = "add_record"
            /\ hs'[h].record_count = hs[h].record_count + 1) =>
            LET path == hs'[h].master.rightmost_path
                n == hs'[h].record_count
            IN  /\ \A level \in 1..Len(path) : Len(path[level]) < FanOut
                /\ Len(path) > 0 /\ Len(path[Len(path)]) > 0
                /\ Len(path) = digits(n)
                /\ Len(path) \in {Len(hs[h].master.rightmost_path),
                                  Len(hs[h].master.rightmost_path) + 1}
                /\ (Len(path) /= Len(hs[h].master.rightmost_path)
                      <=> \E k \in 0..n : n = power_of_fan_out(k))
      ]_vars

\* The add_record that made the record count fan_out squared has returned:
\* the path has three levels, the two below the top are empty.
PathWitness ==
    /\ ret.op = "add_record" /\ hs[ret.h].record_count = FanOut * FanOut
    /\ Len(hs[ret.h].master.rightmost_path) = 3
    /\ hs[ret.h].master.rightmost_path[1] = <<>>
    /\ Len(hs[ret.h].master.rightmost_path[3]) = 1
-----------------------------------------------------------------------------
(* C40: the growth of the file before a block is written. *)

\* A writer sets metadata of one byte, of a compression block, of the cap of
\* a growth increment and of twice the cap, once between commits, adds
\* records, and commits.
NextGrowth ==
    \/ ~hs[1].file /\ Open(1, TRUE)
    \/ RefreshLock(1)
    \/ RefreshRead(1)
    \/ \E n \in {1, compression_block_size, GrowthCap, 2 * GrowthCap} :
          /\ open_for_write(1)
          /\ hs[1].master.file_limit < initial_file_limit + GrowthCap
          /\ view[1].meta = history.log[Len(history.log)].meta
          /\ SetMetadata(1, LongMetadata(n))
    \/ MayAdd(1) /\ Len(view[1].recs) < MaxFew /\ AddRecord(1, Bytes(<<97>>))
    \/ MayCommit(1) /\ Len(history.log) <= MaxFew /\ ~Committed(1) /\ Commit(1)
    \/ CommitLock(1)
    \/ CommitWrite(1)
    \/ CommitFlush(1)

SpecGrowth == InitEmpty /\ [][NextGrowth]_vars

\* C40: when set_metadata fills the compression block and the block is
\* flushed, the length of the file after the growth step is at least
\* file_limit + 4 + len(compressed), whatever the length of the compressed
\* block; and the file has grown by a whole number of pages, by no more than
\* the cap and by no more than file_limit rounded up to a page.
GrowthMakesRoom ==
    [][\A h \in Handles :
        (ret'.h = h /\ ret'.op = "set_metadata" /\ hs'[h].master /= hs[h].master) =>
            LET x == [appender_of(h) EXCEPT !.cb = @ \o write_sized(ret'.arg[1][1])]
                compressed == compress(x.cb)
                g == grown([x EXCEPT !.cb = <<>>], compressed)
                growth == file_size(g) - file_size(x)
            IN  Len(x.cb) >= compression_block_size =>
                    /\ file_size(g) >= x.m.file_limit + 1 + Len(compressed)
                    /\ growth % PageSize = 0
                    /\ growth <= GrowthCap
                    /\ growth <= CeilDiv(x.m.file_limit, PageSize) * PageSize
      ]_vars
====
